---- MODULE Spec2Model ----
(***************************************************************************)
(* Model of the load-testing harness's core: the retrying request          *)
(* executor (_retry_request), the response validators (http_validation)    *)
(* and the shared product cache (SharedData).                              *)
(***************************************************************************)
EXTENDS Integers, Sequences, FiniteSets, TLC

VARIABLES
    \* ---- _retry_request: one call of the executor ----
    pc,            \* "idle" | "loop" | "returned"
    max_retries,   \* the max_retries argument
    validators,    \* the validators argument (None or a list of checks)
    attempt,       \* the loop variable of `for attempt in range(max_retries)`
    retry_delay,   \* the local retry_delay
    history,       \* one entry per invocation of request_func, in order
    sleeps,        \* the arguments of the time.sleep calls, in order
    result,        \* the value returned by _retry_request
    \* ---- validators applied on their own ----
    v_expected,    \* the argument check_status_code was built with
    v_response,    \* the response the predicate is applied to
    v_applied,     \* whether the predicate has been applied
    v_result,      \* what the predicate returned
    \* ---- SharedData ----
    _products,     \* self._products
    _categories,   \* self._categories
    op,            \* the last completed SharedData call
    prev_op,       \* the call completed before it
    arg,           \* the argument of the last update_products call
    ever_categories,     \* categories carried by any update_products argument so far
    \* what the last completed SharedData call returned (the two others empty):
    ret_products,  \* by get_products
    ret_categories,\* by get_categories
    ret_category,  \* by get_random_category
    ret_product,   \* by get_random_product
    \* ---- the list objects a caller of SharedData holds ----
    held_items,    \* the elements of the list L the caller built
    held_passed,   \* whether L has been passed to update_products
    held_same,     \* whether L is the very object self._products refers to
    ret_same,      \* whether the list get_products returned is that object
    step,          \* the caller's last step: "call" of SharedData, or a list mutation
    \* ---- SharedData called from several threads at once ----
    _lock,         \* self._lock, a threading.RLock: its owner and its depth
    t_pc,          \* per thread: the statement of its call it is at
    t_call,        \* per thread: the method it calls
    t_products,    \* per thread: the argument of its update_products call
    t_i,           \* per thread: how far `for product in products` has got
    t_ret_products,    \* per thread: what its get_products call returned
    t_ret_categories,  \* per thread: what its get_categories call returned
    \* ---- the users of one locust process and their caches ----
    instances,     \* the SharedData objects made so far, in order of creation
    u_class,       \* per user: its class, "none" before on_start
    u_shared_data, \* per user: self.shared_data, an index into instances (0: unset)
    u_seen,        \* per user: its get_products result since the last replacement
    replaced,      \* the last catalog replacement: who made it, and with what
    \* ---- validate_response applied on its own ----
    vr_response,   \* the response argument
    vr_checks,     \* the checks argument
    vr_done,       \* whether validate_response has been called
    vr_run,        \* what the call did
    \* ---- check_products_list_schema applied on its own ----
    s_body,        \* what response.json() gives, or that it raises
    s_done,        \* whether the validator has been called
    s_result,      \* what it returned
    \* ---- simulate.py: the driver's scheduler loop ----
    action_weight, \* ACTION_CONFIG[name]['weight'], in units of 1/WeightUnits
    action_count,  \* ACTION_CONFIG[name]['count']
    known_products,          \* the global known_products
    current_known_products,  \* the list the argument generators closed over
    last,          \* what the last iteration of `while True` did
    \* ---- the locust users' tasks and their execution caps ----
    task_class,     \* the user class the process runs
    command_line,   \* the --max-... options given on the command line
    parsed_options, \* environment.parsed_options: the max_... attributes it has
    task_counts,    \* self.task_counts of each user
    task_products,  \* self.shared_data._products of each user
    task_runs,      \* how many times a counter has been incremented
    task_last,      \* what the last task call did
    \* ---- the start of the driver: arguments, weights, first fetch ----
    program,        \* which simulate.py runs
    argv,           \* sys.argv[1:]
    start_pc,       \* how far the start has come
    mode,           \* what parse_arguments hands back: mode,
    gap_duration,   \*   gap_duration (in hundredths)
    cli_overrides,  \*   and cli_overrides (weights in hundredths)
    parsing_errors, \* the errors parse_arguments has collected
    weights,        \* ACTION_CONFIG[name]['weight'], as fractions
    requests,       \* how many requests have been sent
    fetch_result,   \* what the first fetch got
    \* ---- on_start of the users that share one cache ----
    o_class,        \* the class of the users the process spawns
    o_pc,           \* where each user is in on_start
    o_attempt,      \* the loop variable of each user's _load_initial_products
    o_products,     \* shared_data._products
    o_loaders       \* the users that have called _load_initial_products

retry_vars == <<pc, max_retries, validators, attempt, retry_delay, history, sleeps, result>>
valid_vars == <<v_expected, v_response, v_applied, v_result>>
cache_vars == <<_products, _categories, op, prev_op, arg, ever_categories,
                ret_products, ret_categories, ret_category, ret_product>>
alias_vars == <<held_items, held_passed, held_same, ret_same, step>>
\* the variables of the components further down
conc_vars == <<_lock, t_pc, t_call, t_products, t_i, t_ret_products, t_ret_categories>>
user_vars == <<instances, u_class, u_shared_data, u_seen, replaced>>
validate_vars == <<vr_response, vr_checks, vr_done, vr_run>>
schema_vars == <<s_body, s_done, s_result>>
sched_vars == <<action_weight, action_count, known_products, current_known_products, last>>
task_vars == <<task_class, command_line, parsed_options, task_counts, task_products,
               task_runs, task_last>>
start_vars == <<program, argv, start_pc, mode, gap_duration, cli_overrides, parsing_errors,
                weights, requests, fetch_result>>
onstart_vars == <<o_class, o_pc, o_attempt, o_products, o_loaders>>
later_vars == <<task_vars, start_vars, onstart_vars>>
ext_vars == <<conc_vars, user_vars, validate_vars, schema_vars, sched_vars, later_vars>>
vars == <<retry_vars, valid_vars, cache_vars, alias_vars, ext_vars>>

(***************************************************************************)
(* Bounds of the model.                                                    *)
(***************************************************************************)
\* the largest max_retries a call is made with
MaxRetriesBound == 4
\* the longest product list passed to update_products
MaxProducts == 2
\* the longest list of checks passed to validate_response
MaxChecks == 3
\* the most elements, or entries, of a product list body
MaxItems == 2
\* the weights of the driver's actions are multiples of 1/WeightUnits
WeightUnits == 2
\* the most actions the driver executes
MaxExecutions == 2
\* the most counter increments of the locust users
MaxTaskRuns == 3
\* the largest execution cap given on the command line
MaxCap == 2
\* the most arguments on the driver's command line
MaxArgs == 2

(***************************************************************************)
(* Python values.                                                          *)
(***************************************************************************)
\* an int, or a set of ints, as a Python value
PyInt(n) == [py |-> "int", int |-> n, set |-> {}]
PySet(S) == [py |-> "set", int |-> 0, set |-> S]

\* a != b of Python: an int and a set are never equal
PyNe(a, b) ==
    IF a.py # b.py THEN TRUE
    ELSE IF a.py = "int" THEN a.int # b.int
    ELSE a.set # b.set

\* `needle in haystack` of two str, each a sequence of pieces
StrIn(needle, haystack) ==
    \E i \in 0..(Len(haystack) - Len(needle)) :
        SubSeq(haystack, i + 1, i + Len(needle)) = needle

(***************************************************************************)
(* Responses and what request_func can do.                                 *)
(***************************************************************************)
Statuses == {200, 409, 500, 503}
JSON == <<"application/json">>
JSON_UTF8 == <<"application/json", "; charset=utf-8">>
HTML == <<"text/html">>
ContentTypes == {JSON_UTF8, HTML}

Response(s, ct) == [kind |-> "response", status_code |-> s, content_type |-> ct]
Responses == {Response(s, ct) : s \in Statuses, ct \in ContentTypes}
\* request_func raised an exception
Raised == [kind |-> "raise", status_code |-> 0, content_type |-> <<>>]
\* Python's None where a response is expected
None == [kind |-> "None", status_code |-> 0, content_type |-> <<>>]

(***************************************************************************)
(* http_validation.py                                                      *)
(***************************************************************************)
\* the closure check_status_code(expected_code) returns
check_status_code(expected_code) ==
    [fn |-> "check_status_code", expected_code |-> expected_code, expected_type |-> <<>>]

\* the closure check_content_type(expected_type) returns
check_content_type(expected_type) ==
    [fn |-> "check_content_type", expected_code |-> PyInt(0), expected_type |-> expected_type]

\* a mutated check_status_code._check: membership for a set, equality for an int
status_check_membership(response, expected_code) ==
    IF expected_code.py = "set" THEN response.status_code \in expected_code.set
    ELSE response.status_code = expected_code.int

\* check_status_code._check
status_check(response, expected_code) ==
    IF PyNe(PyInt(response.status_code), expected_code) THEN FALSE ELSE TRUE

\* check_content_type._check
content_type_check(response, expected_type) ==
    IF ~StrIn(expected_type, response.content_type) THEN FALSE ELSE TRUE

\* check(response) for one of the closures above
Check(check, response) ==
    IF check.fn = "check_status_code" THEN status_check(response, check.expected_code)
    ELSE content_type_check(response, check.expected_type)

\* a callable in `checks` that raises whatever it is applied to
raising_check == [fn |-> "raises", expected_code |-> PyInt(0), expected_type |-> <<>>]

\* whether check(response) raises: the callable above does, and the two
\* closures do on None (response.status_code, response.headers)
Raises(check, response) == check.fn = "raises" \/ response.kind # "response"

\* what validate_response has done so far: `success`, the checks it has
\* called (by position), and whether an exception has left the function
Validation(success, ran, propagated) ==
    [success |-> success, ran |-> ran, propagated |-> propagated]

\* mutated loop: the checks after the first failure are not called
RECURSIVE validate_until_failure(_, _, _, _)
validate_until_failure(response, checks, i, v) ==
    IF i > Len(checks) \/ ~v.success THEN v
    ELSE validate_until_failure(response, checks, i + 1,
             Validation(~Raises(checks[i], response) /\ Check(checks[i], response),
                        Append(v.ran, i), FALSE))

\* `for check in checks:` from the i-th check on
RECURSIVE validate_from(_, _, _, _)
validate_from(response, checks, i, v) ==
    IF i > Len(checks) THEN v
    ELSE validate_from(response, checks, i + 1,
             IF Raises(checks[i], response)
               THEN \* except Exception
                    Validation(FALSE, Append(v.ran, i), FALSE)
               ELSE IF ~Check(checks[i], response)
               THEN Validation(FALSE, Append(v.ran, i), FALSE)
               ELSE Validation(v.success, Append(v.ran, i), FALSE))

\* the whole run of validate_response
validate_run(response, checks) ==
    validate_from(response, checks, 1, Validation(TRUE, <<>>, FALSE))

\* validate_response: every check runs, the result is their conjunction
validate_response(response, checks) == validate_run(response, checks).success

(***************************************************************************)
(* _retry_request                                                          *)
(***************************************************************************)
\* the validators argument: None, or a list of checks
NoValidators == [is_none |-> TRUE, checks |-> <<>>]
ValidatorList(cs) == [is_none |-> FALSE, checks |-> cs]
ValidatorChoices ==
    { NoValidators,
      ValidatorList(<<>>),
      ValidatorList(<<check_status_code(PyInt(200))>>),
      ValidatorList(<<check_status_code(PyInt(200)), check_content_type(JSON)>>),
      ValidatorList(<<check_status_code(PyInt(409)), check_content_type(JSON)>>),
      ValidatorList(<<check_status_code(PySet({200, 409})), check_content_type(JSON)>>) }

\* `if validators:`
Truthy(v) == ~v.is_none /\ Len(v.checks) > 0

DefaultMaxRetries == 3
InitialDelay == 1

\* mutated test of the status class: 4xx counts as a server error too
IsServerErrorFrom400(status_code) == 400 <= status_code /\ status_code < 600

\* `500 <= response.status_code < 600`
IsServerError(status_code) == 500 <= status_code /\ status_code < 600

\* mutated test: the last attempt counts as having one left
HasAttemptsLeftAtLast(a, m) == a < m

\* `attempt < max_retries - 1`
HasAttemptsLeft(a, m) == a < m - 1

\* mutated loop: one value more than range(max_retries) holds
in_range_inclusive(a, m) == a <= m

\* `for attempt in range(max_retries)`: whether the loop variable takes the value a
in_range(a, m) == 0 <= a /\ a < m

\* mutated backoff: the delay grows by one
NextDelayLinear(d) == d + 1

\* `retry_delay *= 2`
NextDelay(d) == d * 2

\* one entry of history: what request_func did, and whether validate_response
\* was called on the response
Entry(outcome, validated, valid) ==
    [outcome |-> outcome, validated |-> validated, valid |-> valid]

\* time.sleep(retry_delay); retry_delay *= 2; go to the next iteration.  When
\* the loop variable has run through range(max_retries) the function falls
\* out of the loop and returns None.
Continue(slept) ==
    /\ sleeps' = IF slept THEN Append(sleeps, retry_delay) ELSE sleeps
    /\ retry_delay' = IF slept THEN NextDelay(retry_delay) ELSE retry_delay
    /\ attempt' = attempt + 1
    /\ IF in_range(attempt + 1, max_retries)
         THEN pc' = "loop" /\ result' = result
         ELSE pc' = "returned" /\ result' = None

\* `return response`
Return(response) ==
    /\ pc' = "returned"
    /\ result' = response
    /\ UNCHANGED <<sleeps, retry_delay, attempt>>

\* the call _retry_request(request_func, name, validators, max_retries)
Call(m, v) ==
    /\ pc = "idle"
    /\ max_retries' = m
    /\ validators' = v
    /\ retry_delay' = InitialDelay
    /\ attempt' = 0
    /\ history' = <<>>
    /\ sleeps' = <<>>
    /\ IF in_range(0, m)
         THEN pc' = "loop" /\ result' = None
         ELSE pc' = "returned" /\ result' = None
    /\ UNCHANGED <<valid_vars, cache_vars, alias_vars, ext_vars>>

\* one iteration of the loop, request_func doing `outcome`
Iteration(outcome) ==
    /\ pc = "loop"
    /\ in_range(attempt, max_retries)
    /\ UNCHANGED <<max_retries, validators, valid_vars, cache_vars, alias_vars, ext_vars>>
    /\ IF outcome.kind = "raise"
         THEN \* except Exception
              /\ history' = Append(history, Entry(outcome, FALSE, FALSE))
              /\ Continue(HasAttemptsLeft(attempt, max_retries))
         ELSE IF IsServerError(outcome.status_code) /\ HasAttemptsLeft(attempt, max_retries)
         THEN /\ history' = Append(history, Entry(outcome, FALSE, FALSE))
              /\ Continue(TRUE)
         ELSE IF Truthy(validators)
         THEN LET valid == validate_response(outcome, validators.checks) IN
              /\ history' = Append(history, Entry(outcome, TRUE, valid))
              /\ IF ~valid /\ HasAttemptsLeft(attempt, max_retries)
                   THEN Continue(TRUE)
                   ELSE Return(outcome)
         ELSE /\ history' = Append(history, Entry(outcome, FALSE, FALSE))
              /\ Return(outcome)

RetryRaises == Iteration(Raised)
RetryResponds == \E r \in Responses : Iteration(r)
RetryCall == \E m \in 0..MaxRetriesBound, v \in ValidatorChoices : Call(m, v)

\* Optional[str]
NoCategory == [is_none |-> TRUE, value |-> ""]
SomeCategory(c) == [is_none |-> FALSE, value |-> c]

\* Optional[Dict]
NoProduct == [is_none |-> TRUE, value |-> [name |-> "", has_category |-> FALSE, category |-> ""]]
SomeProduct(p) == [is_none |-> FALSE, value |-> p]

InitValid ==
    /\ v_expected = PyInt(200)
    /\ v_response = Response(200, JSON_UTF8)
    /\ v_applied = FALSE
    /\ v_result = FALSE

InitCache ==
    /\ _products = <<>>
    /\ _categories = {}
    /\ op = "__init__"
    /\ prev_op = "__init__"
    /\ arg = <<>>
    /\ ever_categories = {}
    /\ ret_products = <<>>
    /\ ret_categories = <<>>
    /\ ret_category = NoCategory
    /\ ret_product = NoProduct

InitAlias ==
    /\ held_items = <<>>
    /\ held_passed = FALSE
    /\ held_same = FALSE
    /\ ret_same = FALSE
    /\ step = "call"

\* the threads that call the one SharedData instance
Threads == {"user1", "user2", "user3"}

InitConc ==
    /\ _lock = [owner |-> "nobody", depth |-> 0]
    /\ t_pc = [t \in Threads |-> "idle"]
    /\ t_call = [t \in Threads |-> "none"]
    /\ t_products = [t \in Threads |-> <<>>]
    /\ t_i = [t \in Threads |-> 0]
    /\ t_ret_products = [t \in Threads |-> <<>>]
    /\ t_ret_categories = [t \in Threads |-> <<>>]

\* the virtual users of one locust process
Users == {"user1", "user2"}

\* SharedData(): a new, empty instance
NewSharedData == [_products |-> <<>>, _categories |-> {}]

\* nothing read since the last replacement
NotSeen == [fresh |-> FALSE, products |-> <<>>]

\* `shared_data = SharedData()` at module level is the first instance
InitUsers ==
    /\ instances = <<NewSharedData>>
    /\ u_class = [u \in Users |-> "none"]
    /\ u_shared_data = [u \in Users |-> 0]
    /\ u_seen = [u \in Users |-> NotSeen]
    /\ replaced = [happened |-> FALSE, by |-> "nobody", products |-> <<>>]

InitValidate ==
    /\ vr_response = Response(200, JSON_UTF8)
    /\ vr_checks = <<>>
    /\ vr_done = FALSE
    /\ vr_run = Validation(TRUE, <<>>, FALSE)

InitSchema ==
    /\ s_body = [parsed |-> TRUE, envelope |-> FALSE, value |-> [type |-> "list", items |-> <<>>]]
    /\ s_done = FALSE
    /\ s_result = FALSE

\* simulate.py: the keys of BASE_ACTION_CONFIG
action_names ==
    { "GET_ALL", "GET_BY_CATEGORY", "GET_BY_NAME", "UPDATE_STOCK", "BUY_PRODUCT",
      "BAD_PATH", "STATUS_CHECK", "HEALTH_CHECK" }

\* the loop has not run yet
NoIteration ==
    [path |-> "none", catalog_empty |-> TRUE, runnable |-> {}, total |-> 0,
     normalized |-> <<>>, forced |-> FALSE, chosen |-> "none", argument |-> "none",
     result |-> [kind |-> "none", products |-> <<>>]]

InitSched ==
    /\ action_weight = [name \in action_names |-> IF name = "GET_ALL" THEN WeightUnits ELSE 0]
    /\ action_count = [name \in action_names |-> 0]
    /\ known_products = <<>>
    /\ current_known_products = <<>>
    /\ last = NoIteration

(***************************************************************************)
(* The command line of locust and the per-user task counters.              *)
(***************************************************************************)
\* the users whose tasks run
TaskUsers == {"user1", "user2"}

\* locustfile.py: the tasks of SimulationUser the model follows
SimulationTasks == {"browse_all_products", "buy_product", "health_check"}
\* master_store_user.py: the tasks of MasterStoreUser the model follows
MasterTasks == {"master_browse_products", "master_buy_product"}
TasksOf(class) == IF class = "SimulationUser" THEN SimulationTasks ELSE MasterTasks

\* the init_command_line_parser listener of locustfile.py registers --max-<task>
\* for the product tasks of SimulationUser; no other option is registered
RegisteredOptions(class) ==
    IF class = "SimulationUser" THEN {"browse_all_products", "buy_product"} ELSE {}

\* an option on the command line: left out, or given with an int
NotGiven == [given |-> FALSE, value |-> 0]
Given(n) == [given |-> TRUE, value |-> n]

\* add_argument(..., type=int, default=0)
default == 0

\* parser.parse_args: each registered option is the int given, or the default
parse_options(line) ==
    [option \in DOMAIN line |-> IF line[option].given THEN line[option].value ELSE default]

\* SimulationUser.__init__: self.task_counts = {"health_check": 100}
HealthCheckStart == 100
\* self.task_counts after __init__
new_task_counts(class) ==
    IF class = "SimulationUser"
      THEN [name \in {"health_check"} |-> HealthCheckStart]
      ELSE [name \in {"master_health_check", "master_browse_products", "master_buy_product"}
              |-> 0]

\* no task has been called yet
NoTask == [user |-> "none", task |-> "none", outcome |-> "none", before |-> 0]

InitTasks ==
    /\ task_class = "SimulationUser"
    /\ command_line = [option \in RegisteredOptions("SimulationUser") |-> NotGiven]
    /\ parsed_options = parse_options(command_line)
    /\ task_counts = [u \in TaskUsers |-> new_task_counts("SimulationUser")]
    /\ task_products = [u \in TaskUsers |-> <<>>]
    /\ task_runs = 0
    /\ task_last = NoTask

\* a dict with no key
EmptyDict == [key \in {} |-> 0]

InitStart ==
    /\ program = "tests/simulate.py"
    /\ argv = <<>>
    /\ start_pc = "start"
    /\ mode = "fast"
    /\ gap_duration = 100
    /\ cli_overrides = EmptyDict
    /\ parsing_errors = <<>>
    /\ weights = EmptyDict
    /\ requests = 0
    /\ fetch_result = [kind |-> "none", products |-> <<>>]

\* the users a process spawns together
StartingUsers == {"user1", "user2", "user3"}

InitOnStart ==
    /\ o_class = "SimulationUser"
    /\ o_pc = [u \in StartingUsers |-> "spawned"]
    /\ o_attempt = [u \in StartingUsers |-> 0]
    /\ o_products = <<>>
    /\ o_loaders = {}

InitLater == InitTasks /\ InitStart /\ InitOnStart

InitExt == InitConc /\ InitUsers /\ InitValidate /\ InitSchema /\ InitSched /\ InitLater

InitRetry ==
    /\ pc = "idle"
    /\ max_retries = DefaultMaxRetries
    /\ validators = NoValidators
    /\ attempt = 0
    /\ retry_delay = InitialDelay
    /\ history = <<>>
    /\ sleeps = <<>>
    /\ result = None

NextRetry == RetryCall \/ RetryRaises \/ RetryResponds

InitSpecRetry == InitRetry /\ InitValid /\ InitCache /\ InitAlias /\ InitExt

SpecRetry == InitSpecRetry /\ [][NextRetry]_vars

\* request_func returns or raises, and the loop then goes on: an iteration
\* that can run does run
SpecRetryFair == SpecRetry /\ WF_vars(RetryRaises \/ RetryResponds)

(***************************************************************************)
(* check_status_code applied on its own.                                   *)
(***************************************************************************)
ExpectedChoices == {PyInt(s) : s \in Statuses} \cup {PySet(S) : S \in SUBSET Statuses}

\* check_status_code(v_expected)(v_response)
ApplyStatusCheck ==
    /\ ~v_applied
    /\ v_applied' = TRUE
    /\ v_result' = status_check(v_response, v_expected)
    /\ UNCHANGED <<v_expected, v_response, retry_vars, cache_vars, alias_vars, ext_vars>>

InitValidators ==
    /\ v_expected \in ExpectedChoices
    /\ v_response \in Responses
    /\ v_applied = FALSE
    /\ v_result = FALSE

NextValidators == ApplyStatusCheck

InitSpecValidators == InitValidators /\ InitRetry /\ InitCache /\ InitAlias /\ InitExt

SpecValidators == InitSpecValidators /\ [][NextValidators]_vars

(***************************************************************************)
(* validate_response applied on its own.                                   *)
(***************************************************************************)
\* the checks a list is made of
CheckChoices ==
    { check_status_code(PyInt(200)), check_content_type(JSON), raising_check }

CheckLists == UNION { [1..n -> CheckChoices] : n \in 0..MaxChecks }

\* validate_response(vr_response, vr_checks)
ApplyValidateResponse ==
    /\ ~vr_done
    /\ vr_done' = TRUE
    /\ vr_run' = validate_run(vr_response, vr_checks)
    /\ UNCHANGED <<vr_response, vr_checks, retry_vars, valid_vars, cache_vars, alias_vars,
                   conc_vars, user_vars, schema_vars, sched_vars, later_vars>>

InitSpecValidate ==
    /\ vr_response \in Responses \cup {None}
    /\ vr_checks \in CheckLists
    /\ vr_done = FALSE
    /\ vr_run = Validation(TRUE, <<>>, FALSE)
    /\ InitRetry /\ InitValid /\ InitCache /\ InitAlias /\ InitConc /\ InitUsers /\ InitSchema
    /\ InitSched /\ InitLater

NextValidate == ApplyValidateResponse

SpecValidate == InitSpecValidate /\ [][NextValidate]_vars

(***************************************************************************)
(* http_validation.py: check_products_list_schema applied on its own.      *)
(***************************************************************************)
\* the field names a product object of a body can have
ItemFields == {"name", "description", "price", "stock"}

\* an element of a list body, or the value of an entry of a map body: an
\* object with some of the fields, or something that is no object
ItemValues ==
    { [is_dict |-> TRUE, fields |-> F] : F \in SUBSET ItemFields }
        \cup { [is_dict |-> FALSE, fields |-> {}] }

ItemLists == UNION { [1..n -> ItemValues] : n \in 0..MaxItems }

\* JSON values: a list, a dict (its values in insertion order; none of its
\* keys is "data"), or anything else (a string, a number, null)
JsonList(items) == [type |-> "list", items |-> items]
JsonDict(items) == [type |-> "dict", items |-> items]
JsonOther == [type |-> "other", items |-> <<>>]
JsonValues ==
    { JsonList(l) : l \in ItemLists } \cup { JsonDict(l) : l \in ItemLists } \cup { JsonOther }

\* response.json(): the value itself, the value under the key "data" of a
\* dict, or an exception
Bare(v) == [parsed |-> TRUE, envelope |-> FALSE, value |-> v]
Envelope(v) == [parsed |-> TRUE, envelope |-> TRUE, value |-> v]
Unparsable == [parsed |-> FALSE, envelope |-> FALSE, value |-> JsonOther]
Bodies == { Bare(v) : v \in JsonValues } \cup { Envelope(v) : v \in JsonValues } \cup { Unparsable }

required_fields == {"name", "description", "price"}

\* mutated check: every element has to be a product object
all_products_valid(items) ==
    \A i \in 1..Len(items) : items[i].is_dict /\ required_fields \subseteq items[i].fields

\* the check made of a dict's entries or a list's elements: empty is valid,
\* otherwise the first has to be a dict with the required fields
first_product_valid(items) ==
    IF Len(items) = 0 THEN TRUE
    ELSE IF ~items[1].is_dict THEN FALSE
    ELSE IF \E field \in required_fields : field \notin items[1].fields THEN FALSE
    ELSE TRUE

check_products_list_schema(body) ==
    IF ~body.parsed THEN FALSE  \* except Exception
    ELSE IF ~body.envelope /\ body.value.type = "dict"
    THEN \* Case 1: a dict without the key "data"
         first_product_valid(body.value.items)
    ELSE IF body.envelope /\ body.value.type = "dict"
    THEN \* Case 2, data["data"] a dict
         first_product_valid(body.value.items)
    ELSE IF ~body.envelope /\ body.value.type # "list"
    THEN \* neither a dict nor a list
         FALSE
    ELSE \* products = data["data"] (Case 2) or products = data (Case 3)
         IF body.value.type = "list"
           THEN first_product_valid(body.value.items)
           ELSE TRUE

\* check_products_list_schema(response)
ApplySchemaCheck ==
    /\ ~s_done
    /\ s_done' = TRUE
    /\ s_result' = check_products_list_schema(s_body)
    /\ UNCHANGED <<s_body, retry_vars, valid_vars, cache_vars, alias_vars,
                   conc_vars, user_vars, validate_vars, sched_vars, later_vars>>

InitSpecSchema ==
    /\ s_body \in Bodies
    /\ s_done = FALSE
    /\ s_result = FALSE
    /\ InitRetry /\ InitValid /\ InitCache /\ InitAlias /\ InitConc /\ InitUsers /\ InitValidate
    /\ InitSched /\ InitLater

NextSchema == ApplySchemaCheck

SpecSchema == InitSpecSchema /\ [][NextSchema]_vars

(***************************************************************************)
(* shared_data.py: SharedData                                              *)
(***************************************************************************)
\* a product dict: has_category says whether the key "category" is present
Product(n, h, c) == [name |-> n, has_category |-> h, category |-> c]
ProductValues ==
    { Product("Laptop", TRUE, "Electronics"),
      Product("Novel", TRUE, "Books"),
      Product("Mug", TRUE, ""),
      Product("Gift", FALSE, "") }

ProductLists == UNION { [1..n -> ProductValues] : n \in 0..MaxProducts }

\* the orders list(a_set) can come out in
ListsOf(S) == { l \in [1..Cardinality(S) -> S] : \A x \in S : \E i \in DOMAIN l : l[i] = x }

\* mutated test: a present but empty category is added too
HasCategoryKey(product) == product.has_category

\* `"category" in product and product["category"]`
HasCategory(product) == product.has_category /\ product.category # ""

\* `for product in products: if ...: self._categories.add(product["category"])`
RECURSIVE add_categories(_, _, _)
add_categories(categories, products, i) ==
    IF i > Len(products) THEN categories
    ELSE add_categories(IF HasCategory(products[i])
                          THEN categories \cup {products[i].category}
                          ELSE categories,
                        products, i + 1)

\* mutated update: the category set is rebuilt from the new list alone
rebuilt_categories(categories, products) == add_categories({}, products, 1)

\* the category set update_products leaves in self._categories
updated_categories(categories, products) == add_categories(categories, products, 1)

\* mutated copy: repeated elements are dropped
copy_unique(l) ==
    LET keep == { i \in 1..Len(l) : \A j \in 1..(i - 1) : l[j] # l[i] }
        RECURSIVE pick(_)
        pick(i) == IF i > Len(l) THEN <<>>
                   ELSE IF i \in keep THEN <<l[i]>> \o pick(i + 1) ELSE pick(i + 1)
    IN pick(1)

\* list.copy(): a new list with the same elements in the same order
copy(l) == [i \in 1..Len(l) |-> l[i]]

\* the categories a product list carries: those of its products that have a
\* non-empty one
Carried(products) ==
    { products[i].category :
        i \in { j \in 1..Len(products) :
                  products[j].has_category /\ products[j].category # "" } }

Called(name) == prev_op' = op /\ op' = name

update_products(products) ==
    /\ _products' = products
    /\ _categories' = updated_categories(_categories, products)
    /\ arg' = products
    /\ ever_categories' = ever_categories \cup Carried(products)
    /\ Called("update_products")
    /\ ret_products' = <<>> /\ ret_categories' = <<>>
    /\ ret_category' = NoCategory /\ ret_product' = NoProduct
    /\ UNCHANGED <<retry_vars, valid_vars, ext_vars>>

get_products ==
    /\ ret_products' = copy(_products)
    /\ Called("get_products")
    /\ ret_categories' = <<>> /\ ret_category' = NoCategory /\ ret_product' = NoProduct
    /\ UNCHANGED <<_products, _categories, arg, ever_categories, retry_vars, valid_vars, ext_vars>>

\* mutated test: a list of one product counts as empty too
IsEmptyUpToOne(l) == Len(l) <= 1

\* `not self._products`
IsEmptyList(l) == Len(l) = 0

get_random_product ==
    /\ IF IsEmptyList(_products)
         THEN ret_product' = NoProduct
         ELSE \E i \in 1..Len(_products) : ret_product' = SomeProduct(_products[i])
    /\ Called("get_random_product")
    /\ ret_products' = <<>> /\ ret_categories' = <<>> /\ ret_category' = NoCategory
    /\ UNCHANGED <<_products, _categories, arg, ever_categories, retry_vars, valid_vars, ext_vars>>

get_categories ==
    /\ ret_categories' \in ListsOf(_categories)
    /\ Called("get_categories")
    /\ ret_products' = <<>> /\ ret_category' = NoCategory /\ ret_product' = NoProduct
    /\ UNCHANGED <<_products, _categories, arg, ever_categories, retry_vars, valid_vars, ext_vars>>

get_random_category ==
    /\ \E categories \in ListsOf(_categories) :
         IF Len(categories) = 0
           THEN ret_category' = NoCategory
           ELSE \E i \in 1..Len(categories) : ret_category' = SomeCategory(categories[i])
    /\ Called("get_random_category")
    /\ ret_products' = <<>> /\ ret_categories' = <<>> /\ ret_product' = NoProduct
    /\ UNCHANGED <<_products, _categories, arg, ever_categories, retry_vars, valid_vars, ext_vars>>

\* the calls of a caller that keeps none of the lists involved
UpdateProducts == (\E products \in ProductLists : update_products(products)) /\ UNCHANGED alias_vars
GetProducts == get_products /\ UNCHANGED alias_vars
GetRandomProduct == get_random_product /\ UNCHANGED alias_vars
GetCategories == get_categories /\ UNCHANGED alias_vars
GetRandomCategory == get_random_category /\ UNCHANGED alias_vars

NextCache ==
    \/ UpdateProducts
    \/ GetProducts
    \/ GetRandomProduct
    \/ GetCategories
    \/ GetRandomCategory

InitSpecCache == InitCache /\ InitRetry /\ InitValid /\ InitAlias /\ InitExt

SpecCache == InitSpecCache /\ [][NextCache]_vars

(***************************************************************************)
(* SharedData and a caller that keeps the lists it passes in and gets      *)
(* back, and mutates them afterwards.                                      *)
(***************************************************************************)
\* `self._products = products` binds the attribute to the caller's list object
stored_is_argument == TRUE

\* mutated get_products: the stored list itself is handed out
copy_is_original_always == TRUE

\* `self._products.copy() is self._products`: a copy is a new list object
copy_is_original == FALSE

\* list.remove(x): the first occurrence of x is taken out
remove(l, x) ==
    LET first == CHOOSE i \in 1..Len(l) : l[i] = x /\ \A j \in 1..(i - 1) : l[j] # x
    IN [i \in 1..(Len(l) - 1) |-> IF i < first THEN l[i] ELSE l[i + 1]]

\* the product and the category a caller appends to a list it holds
ExtraProduct == Product("Gift", FALSE, "")
ExtraCategory == "Toys"

\* the lists a caller builds
BuiltLists ==
    { <<>>, <<Product("Laptop", TRUE, "Electronics")>>, <<Product("Novel", TRUE, "Books")>> }

\* L = [...]: the caller builds a list
BuildList ==
    /\ \E items \in BuiltLists : held_items' = items
    /\ held_passed' = FALSE
    /\ held_same' = FALSE
    /\ step' = "L = [...]"
    /\ UNCHANGED <<ret_same, cache_vars, retry_vars, valid_vars, ext_vars>>

\* shared_data.update_products(L)
PassList ==
    /\ update_products(held_items)
    /\ held_passed' = TRUE
    /\ held_same' = stored_is_argument
    /\ ret_same' = FALSE
    /\ step' = "call"
    /\ UNCHANGED held_items

\* R = shared_data.get_products()
KeepProducts ==
    /\ get_products
    /\ ret_same' = copy_is_original
    /\ step' = "call"
    /\ UNCHANGED <<held_items, held_passed, held_same>>

\* C = shared_data.get_categories()
KeepCategories ==
    /\ get_categories
    /\ ret_same' = FALSE
    /\ step' = "call"
    /\ UNCHANGED <<held_items, held_passed, held_same>>

\* the caller's list L becomes `items`; so does every name bound to the same object
MutateArgument(items, name) ==
    /\ held_items' = items
    /\ _products' = IF held_same THEN items ELSE _products
    /\ ret_products' = IF held_same /\ ret_same THEN items ELSE ret_products
    /\ step' = name
    /\ UNCHANGED <<held_passed, held_same, ret_same, _categories, op, prev_op, arg,
                   ever_categories, ret_categories, ret_category, ret_product,
                   retry_vars, valid_vars, ext_vars>>

\* the returned list R becomes `items`; so does every name bound to the same object
MutateReturned(items, name) ==
    /\ op = "get_products"
    /\ ret_products' = items
    /\ _products' = IF ret_same THEN items ELSE _products
    /\ held_items' = IF ret_same /\ held_same THEN items ELSE held_items
    /\ step' = name
    /\ UNCHANGED <<held_passed, held_same, ret_same, _categories, op, prev_op, arg,
                   ever_categories, ret_categories, ret_category, ret_product,
                   retry_vars, valid_vars, ext_vars>>

\* the returned category list C becomes `items`; list(self._categories) is a new list
MutateCategories(items, name) ==
    /\ op = "get_categories"
    /\ ret_categories' = items
    /\ step' = name
    /\ UNCHANGED <<held_items, held_passed, held_same, ret_same, _products, _categories,
                   op, prev_op, arg, ever_categories, ret_products, ret_category,
                   ret_product, retry_vars, valid_vars, ext_vars>>

ArgumentAppend ==
    /\ Len(held_items) < MaxProducts
    /\ MutateArgument(Append(held_items, ExtraProduct), "L.append")
ArgumentRemove ==
    \E i \in 1..Len(held_items) :
        MutateArgument(remove(held_items, held_items[i]), "L.remove")
ReturnedAppend ==
    /\ Len(ret_products) < MaxProducts
    /\ MutateReturned(Append(ret_products, ExtraProduct), "R.append")
ReturnedRemove ==
    \E i \in 1..Len(ret_products) :
        MutateReturned(remove(ret_products, ret_products[i]), "R.remove")
CategoriesAppend ==
    /\ \A i \in DOMAIN ret_categories : ret_categories[i] # ExtraCategory
    /\ MutateCategories(Append(ret_categories, ExtraCategory), "C.append")
CategoriesRemove ==
    \E i \in 1..Len(ret_categories) :
        MutateCategories(remove(ret_categories, ret_categories[i]), "C.remove")

NextAlias ==
    \/ BuildList
    \/ PassList
    \/ KeepProducts
    \/ KeepCategories
    \/ ArgumentAppend
    \/ ArgumentRemove
    \/ ReturnedAppend
    \/ ReturnedRemove
    \/ CategoriesAppend
    \/ CategoriesRemove

SpecAlias == InitSpecCache /\ [][NextAlias]_vars

(***************************************************************************)
(* SharedData called by several threads at once: each thread makes one     *)
(* call, and the calls interleave statement by statement.                  *)
(***************************************************************************)
\* the lists the threads pass to update_products
ThreadArguments ==
    { <<>>,
      <<Product("Novel", TRUE, "Books")>>,
      <<Product("Laptop", TRUE, "Electronics"), Product("Novel", TRUE, "Books")>>,
      <<Product("Gift", FALSE, ""), Product("Mug", TRUE, "")>> }

\* mutated lock: acquiring never waits
can_acquire_always(t) == TRUE

\* RLock.acquire: free, or already held by the calling thread
can_acquire(t) == _lock.owner \in {"nobody", t}

\* the first statement inside `with self._lock:` of each method
FirstStatement(call) ==
    CASE call = "update_products" -> "self._products = products"
      [] call = "get_products" -> "return self._products.copy()"
      [] call = "get_categories" -> "return list(self._categories)"

At(t, where) == t_pc[t] = where
Goto(t, where) == t_pc' = [t_pc EXCEPT ![t] = where]

\* a thread calls one of the methods
ThreadCalls(t, call, products) ==
    /\ At(t, "idle")
    /\ Goto(t, "with self._lock")
    /\ t_call' = [t_call EXCEPT ![t] = call]
    /\ t_products' = [t_products EXCEPT ![t] = products]
    /\ UNCHANGED <<_lock, t_i, t_ret_products, t_ret_categories, _products, _categories>>

\* `with self._lock:` entered
Acquire(t) ==
    /\ At(t, "with self._lock")
    /\ can_acquire(t)
    /\ _lock' = [owner |-> t, depth |-> _lock.depth + 1]
    /\ Goto(t, FirstStatement(t_call[t]))
    /\ UNCHANGED <<t_call, t_products, t_i, t_ret_products, t_ret_categories,
                   _products, _categories>>

\* `self._products = products`
Assign(t) ==
    /\ At(t, "self._products = products")
    /\ _products' = t_products[t]
    /\ t_i' = [t_i EXCEPT ![t] = 1]
    /\ Goto(t, "for product in products")
    /\ UNCHANGED <<_lock, t_call, t_products, t_ret_products, t_ret_categories, _categories>>

\* one round of `for product in products:`, or the end of the loop
Loop(t) ==
    /\ At(t, "for product in products")
    /\ IF t_i[t] > Len(t_products[t])
         THEN /\ Goto(t, "release")
              /\ UNCHANGED <<t_i, _categories>>
         ELSE /\ _categories' = IF HasCategory(t_products[t][t_i[t]])
                                  THEN _categories \cup {t_products[t][t_i[t]].category}
                                  ELSE _categories
              /\ t_i' = [t_i EXCEPT ![t] = t_i[t] + 1]
              /\ UNCHANGED t_pc
    /\ UNCHANGED <<_lock, t_call, t_products, t_ret_products, t_ret_categories, _products>>

\* `return self._products.copy()`
ReadProducts(t) ==
    /\ At(t, "return self._products.copy()")
    /\ t_ret_products' = [t_ret_products EXCEPT ![t] = copy(_products)]
    /\ Goto(t, "release")
    /\ UNCHANGED <<_lock, t_call, t_products, t_i, t_ret_categories, _products, _categories>>

\* `return list(self._categories)`
ReadCategories(t) ==
    /\ At(t, "return list(self._categories)")
    /\ \E categories \in ListsOf(_categories) :
         t_ret_categories' = [t_ret_categories EXCEPT ![t] = categories]
    /\ Goto(t, "release")
    /\ UNCHANGED <<_lock, t_call, t_products, t_i, t_ret_products, _products, _categories>>

\* the `with` block is left
Release(t) ==
    /\ At(t, "release")
    /\ _lock' = IF _lock.depth <= 1
                  THEN [owner |-> "nobody", depth |-> 0]
                  ELSE [owner |-> _lock.owner, depth |-> _lock.depth - 1]
    /\ Goto(t, "returned")
    /\ UNCHANGED <<t_call, t_products, t_i, t_ret_products, t_ret_categories,
                   _products, _categories>>

\* what the threads leave alone
ThreadFrame ==
    UNCHANGED <<op, prev_op, arg, ever_categories, ret_products, ret_categories,
                ret_category, ret_product, alias_vars, retry_vars, valid_vars,
                user_vars, validate_vars, schema_vars, sched_vars, later_vars>>

ThreadUpdates ==
    \E t \in Threads, products \in ThreadArguments :
        ThreadCalls(t, "update_products", products) /\ ThreadFrame
ThreadGets ==
    \E t \in Threads, call \in {"get_products", "get_categories"} :
        ThreadCalls(t, call, <<>>) /\ ThreadFrame
ThreadAcquires == \E t \in Threads : Acquire(t) /\ ThreadFrame
ThreadAssigns == \E t \in Threads : Assign(t) /\ ThreadFrame
ThreadLoops == \E t \in Threads : Loop(t) /\ ThreadFrame
ThreadReadsProducts == \E t \in Threads : ReadProducts(t) /\ ThreadFrame
ThreadReadsCategories == \E t \in Threads : ReadCategories(t) /\ ThreadFrame
ThreadReleases == \E t \in Threads : Release(t) /\ ThreadFrame

NextThreads ==
    \/ ThreadUpdates
    \/ ThreadGets
    \/ ThreadAcquires
    \/ ThreadAssigns
    \/ ThreadLoops
    \/ ThreadReadsProducts
    \/ ThreadReadsCategories
    \/ ThreadReleases

SpecThreads == InitSpecCache /\ [][NextThreads]_vars

(***************************************************************************)
(* The users of one locust process: on_start binds self.shared_data, the   *)
(* product tasks replace the catalog and read it.                          *)
(***************************************************************************)
UserClasses == {"SimulationUser", "BaseAPIUser", "MasterStoreUser"}

\* the product lists _extract_products gets out of a response
UserCatalogs ==
    { <<Product("Laptop", TRUE, "Electronics")>>, <<Product("Novel", TRUE, "Books")>> }

\* locustfile.py: `shared_data = SharedData()` at module level
GlobalInstance == 1

\* the instance on_start binds self.shared_data to, given the instances so far
on_start_instance(class, made) ==
    IF class = "SimulationUser" THEN GlobalInstance ELSE Len(made) + 1

\* the classes whose on_start loads the initial products into an empty cache
LoadsInitialProducts(class) == class \in {"SimulationUser", "MasterStoreUser"}

\* locustfile.py defines SimulationUser alone; the other classes come from
\* the modules under src/, so a process runs the one or the others
SameLocustfile(class) ==
    \A v \in Users :
        u_class[v] # "none" => ((u_class[v] = "SimulationUser") <=> (class = "SimulationUser"))

\* instance i after update_products(products), recorded as a replacement by u
Replace(u, i, made, products) ==
    /\ instances' = [made EXCEPT ![i] =
                       [_products |-> products,
                        _categories |-> updated_categories(made[i]._categories, products)]]
    /\ replaced' = [happened |-> TRUE, by |-> u, products |-> products]
    /\ u_seen' = [v \in Users |-> NotSeen]

\* on_start of a user of the given class; `loaded` is what the initial
\* product load extracts (the empty list when it gets nothing)
on_start(u, class, loaded) ==
    /\ u_class[u] = "none"
    /\ SameLocustfile(class)
    /\ u_class' = [u_class EXCEPT ![u] = class]
    /\ LET i == on_start_instance(class, instances)
           made == IF i > Len(instances) THEN Append(instances, NewSharedData) ELSE instances
       IN /\ u_shared_data' = [u_shared_data EXCEPT ![u] = i]
          /\ IF LoadsInitialProducts(class) /\ made[i]._products = <<>> /\ loaded # <<>>
               THEN Replace(u, i, made, loaded)
               ELSE instances' = made /\ UNCHANGED <<u_seen, replaced>>

\* a task fetches the catalog: `if products: self.shared_data.update_products(products)`
browse_all_products(u, products) ==
    /\ u_class[u] # "none"
    /\ products # <<>>
    /\ Replace(u, u_shared_data[u], instances, products)
    /\ UNCHANGED <<u_class, u_shared_data>>

\* a task reads the catalog: self.shared_data.get_products()
read_products(u) ==
    /\ u_class[u] # "none"
    /\ u_seen' = [u_seen EXCEPT ![u] =
                    [fresh |-> TRUE, products |-> copy(instances[u_shared_data[u]]._products)]]
    /\ UNCHANGED <<instances, u_class, u_shared_data, replaced>>

UserFrame ==
    UNCHANGED <<retry_vars, valid_vars, cache_vars, alias_vars, conc_vars,
                validate_vars, schema_vars, sched_vars, later_vars>>

OnStart ==
    \E u \in Users, class \in UserClasses, loaded \in UserCatalogs \cup {<<>>} :
        on_start(u, class, loaded) /\ UserFrame
BrowseAllProducts ==
    \E u \in Users, products \in UserCatalogs : browse_all_products(u, products) /\ UserFrame
ReadProductsTask == \E u \in Users : read_products(u) /\ UserFrame

NextUsers == OnStart \/ BrowseAllProducts \/ ReadProductsTask

SpecUsers == InitSpecCache /\ [][NextUsers]_vars

(***************************************************************************)
(* The tasks of the locust users: each asks _can_execute_task, counts      *)
(* itself with _increment_task_count and then sends its request.           *)
(***************************************************************************)
\* the caps given on the command line
Caps == -1..MaxCap

\* the product lists a catalog response carries
Nameless == Product("", TRUE, "Books")
TaskCatalogs == { <<Product("Laptop", TRUE, "Electronics")>>, <<Nameless>> }

\* dict.get(key, otherwise), getattr(object, name, otherwise)
get(dict, key, otherwise) == IF key \in DOMAIN dict THEN dict[key] ELSE otherwise

\* mutated check: the counter may reach the cap and pass once more
_can_execute_task_once_more(class, counts, task_name) ==
    LET max_executions == get(parsed_options, task_name, -1)
    IN IF max_executions = 0 THEN FALSE
       ELSE IF max_executions < 0 THEN TRUE
       ELSE get(counts, task_name, 0) <= max_executions

\* mutated check: an option the parser does not know is a cap of 0
_can_execute_task_known_only(class, counts, task_name) ==
    LET max_executions == get(parsed_options, task_name, 0)
    IN IF class = "SimulationUser" /\ task_name = "health_check" THEN TRUE
       ELSE IF max_executions = 0 THEN FALSE
       ELSE IF max_executions < 0 THEN TRUE
       ELSE get(counts, task_name, 0) < max_executions

\* _can_execute_task(self, task_name); parsed_options holds max_<task_name>
\* under the name of the task
_can_execute_task(class, counts, task_name) ==
    LET max_executions == get(parsed_options, task_name, -1)
    IN IF class = "SimulationUser" /\ task_name = "health_check" THEN TRUE
       ELSE IF max_executions = 0 THEN FALSE
       ELSE IF max_executions < 0 THEN TRUE
       ELSE get(counts, task_name, 0) < max_executions

\* self.task_counts after _increment_task_count(task_name)
_increment_task_count(counts, task_name) ==
    [name \in DOMAIN counts \cup {task_name} |->
        IF name = task_name THEN get(counts, task_name, 0) + 1 ELSE counts[name]]

\* the users whose self.shared_data is the instance of u: SimulationUser binds
\* the module's instance, MasterStoreUser makes its own
sharers(u) == IF task_class = "SimulationUser" THEN TaskUsers ELSE {u}

\* `if not product or not product.get("name"): return` of buy_product,
\* `if not product: ... return` of master_buy_product
abstains(task_name, product) ==
    IF task_name = "buy_product"
      THEN product.is_none \/ product.value.name = ""
      ELSE product.is_none

Called_task(u, task_name, outcome) ==
    task_last' = [user |-> u, task |-> task_name, outcome |-> outcome,
                  before |-> get(task_counts[u], task_name, 0)]

\* `if not self._can_execute_task(task_name): return`
filtered(u, task_name) ==
    /\ ~_can_execute_task(task_class, task_counts[u], task_name)
    /\ Called_task(u, task_name, "filtered")
    /\ UNCHANGED <<task_counts, task_products, task_runs>>

\* `count = self._increment_task_count(task_name)`
counted(u, task_name) ==
    /\ task_runs < MaxTaskRuns
    /\ task_runs' = task_runs + 1
    /\ task_counts' = [task_counts EXCEPT ![u] = _increment_task_count(@, task_name)]

\* browse_all_products, master_browse_products; products is what
\* _extract_products gets out of the response, [] when there is none
browse_products(u, task_name, products) ==
    \/ filtered(u, task_name)
    \/ /\ _can_execute_task(task_class, task_counts[u], task_name)
       /\ counted(u, task_name)
       /\ Called_task(u, task_name, "dispatched")
       /\ task_products' =
            IF products # <<>>
              THEN [v \in TaskUsers |-> IF v \in sharers(u) THEN products ELSE task_products[v]]
              ELSE task_products

\* buy_product, master_buy_product; product is what get_random_product returns
buy_product(u, task_name, product) ==
    \/ filtered(u, task_name)
    \/ /\ _can_execute_task(task_class, task_counts[u], task_name)
       /\ counted(u, task_name)
       /\ Called_task(u, task_name, IF abstains(task_name, product) THEN "abstained"
                                    ELSE "dispatched")
       /\ UNCHANGED task_products

\* health_check of SimulationUser asks no cap
health_check(u) ==
    /\ counted(u, "health_check")
    /\ Called_task(u, "health_check", "dispatched")
    /\ UNCHANGED task_products

\* what get_random_product returns on the products of u
random_products(u) ==
    IF IsEmptyList(task_products[u])
      THEN {NoProduct}
      ELSE { SomeProduct(task_products[u][i]) : i \in 1..Len(task_products[u]) }

TaskFrame ==
    UNCHANGED <<task_class, command_line, parsed_options, retry_vars, valid_vars, cache_vars,
                alias_vars, conc_vars, user_vars, validate_vars, schema_vars, sched_vars,
                start_vars, onstart_vars>>

BrowseProductsTask ==
    \E u \in TaskUsers, products \in TaskCatalogs \cup {<<>>} :
        /\ browse_products(u, IF task_class = "SimulationUser" THEN "browse_all_products"
                              ELSE "master_browse_products", products)
        /\ TaskFrame
BuyProductTask ==
    \E u \in TaskUsers : \E product \in random_products(u) :
        /\ buy_product(u, IF task_class = "SimulationUser" THEN "buy_product"
                          ELSE "master_buy_product", product)
        /\ TaskFrame
HealthCheckTask ==
    \E u \in TaskUsers : task_class = "SimulationUser" /\ health_check(u) /\ TaskFrame

\* the process after on_start of its users: the parsed command line, fresh
\* counters, and the catalog the initial load left
InitSpecTasks ==
    /\ task_class \in {"SimulationUser", "MasterStoreUser"}
    /\ command_line \in [RegisteredOptions(task_class) -> {NotGiven} \cup { Given(n) : n \in Caps }]
    /\ parsed_options = parse_options(command_line)
    /\ task_counts = [u \in TaskUsers |-> new_task_counts(task_class)]
    /\ \E products \in TaskCatalogs \cup {<<>>} : task_products = [u \in TaskUsers |-> products]
    /\ task_runs = 0
    /\ task_last = NoTask
    /\ InitRetry /\ InitValid /\ InitCache /\ InitAlias /\ InitConc /\ InitUsers /\ InitValidate
    /\ InitSchema /\ InitSched /\ InitStart /\ InitOnStart

NextTasks == BrowseProductsTask \/ BuyProductTask \/ HealthCheckTask

SpecTasks == InitSpecTasks /\ [][NextTasks]_vars

(***************************************************************************)
(* simulations/src/simulate.py: run_simulation, one step per iteration of  *)
(* its `while True` loop.  Weights are integers, in units of 1/WeightUnits.*)
(***************************************************************************)
\* a product dict of the driver
DriverProduct(name, stock) == [name |-> name, stock |-> stock]

\* the lists the initial fetch and GET_ALL return: products with a name
FetchResults ==
    { <<>>,
      <<DriverProduct("Laptop", 5)>>,
      <<DriverProduct("Laptop", 4)>>,
      <<DriverProduct("Laptop", 5), DriverProduct("Novel", 1)>> }

\* what action_func does: it raises, returns None, or returns a product list
ActionRaised == [kind |-> "raised", products |-> <<>>]
ActionNone == [kind |-> "None", products |-> <<>>]
ActionReturned(products) == [kind |-> "list", products |-> products]
ActionResults(name) ==
    IF name = "GET_ALL"
      THEN {ActionRaised, ActionNone} \cup { ActionReturned(l) : l \in FetchResults }
      ELSE {ActionRaised, ActionNone}

\* {p['name'] for p in products ...}
Names(products) == { products[i].name : i \in DOMAIN products }

RECURSIVE SumOver(_, _)
SumOver(f, S) ==
    IF S = {} THEN 0
    ELSE LET x == CHOOSE y \in S : TRUE IN f[x] + SumOver(f, S \ {x})

\* the weight assignments create_action_config can leave: non-negative, summing to 1
WeightAssignments ==
    { w \in [action_names -> 0..WeightUnits] : SumOver(w, action_names) = WeightUnits }

\* mutated filter: BUY_PRODUCT is not held back
actions_requiring_products_but_buy == {"UPDATE_STOCK", "GET_BY_NAME"}

actions_requiring_products == {"UPDATE_STOCK", "GET_BY_NAME", "BUY_PRODUCT"}

\* the names the filtering loop appends to runnable_actions
runnable_actions(temp_known_products) ==
    { name \in action_names :
        ~(name \in actions_requiring_products /\ temp_known_products = <<>>) }

\* mutated sum: the weights of all the actions, runnable or not
total_weight(weight, runnable) == SumOver(weight, action_names)

\* sum(runnable_weights)
total_runnable_weight(weight, runnable) == SumOver(weight, runnable)

\* [w / total_runnable_weight for w in runnable_weights], each a fraction
normalized_runnable_weights(weight, runnable) ==
    [name \in runnable |->
        [num |-> weight[name], den |-> total_runnable_weight(weight, runnable)]]

\* the names random.choices can return: those of positive weight
choices(normalized) == { name \in DOMAIN normalized : normalized[name].num > 0 }

\* whether the argument generator of the action returns None
generated_args_is_None(name, products) ==
    name \in {"GET_BY_NAME", "UPDATE_STOCK", "BUY_PRODUCT"} /\ products = <<>>

\* the product name in the arguments the generator of the action returns:
\* `product = random.choice(current_known_products)`, `product['name']`
generated_names(name, products) ==
    IF name \in {"GET_BY_NAME", "UPDATE_STOCK", "BUY_PRODUCT"}
      THEN Names(products)
      ELSE {"none"}

\* mutated handler: nothing the action raises is caught
caught_never(action_result) == FALSE

\* `except Exception as e: logging.error(...)` around action_func and the
\* update of known_products
caught(action_result) == action_result.kind = "raised"

Iterated(path, runnable, total, normalized, forced, chosen, argument, action_result) ==
    [path |-> path, catalog_empty |-> known_products = <<>>, runnable |-> runnable,
     total |-> total, normalized |-> normalized, forced |-> forced, chosen |-> chosen,
     argument |-> argument, result |-> action_result]

\* `continue` after a sleep, nothing chosen
SleepAndContinue(path, runnable, total) ==
    /\ last' = Iterated(path, runnable, total, <<>>, FALSE, "none", "none", ActionNone)
    /\ UNCHANGED <<action_weight, action_count, known_products, current_known_products>>

\* mutated counting: the counters of the other actions start over
count_alone(count, name, generated_None) ==
    [n \in DOMAIN count |-> IF n = name /\ ~generated_None THEN count[n] + 1 ELSE 0]

\* `if generated_args is None: ... continue`, else `action_details['count'] += 1`
count_after(count, name, generated_None) ==
    IF generated_None THEN count ELSE [count EXCEPT ![name] = @ + 1]

\* mutated update: only a longer list replaces the catalog
replaced_when_longer(known, name, action_result) ==
    IF /\ name = "GET_ALL"
       /\ action_result.kind = "list"
       /\ Len(known) < Len(action_result.products)
      THEN action_result.products
      ELSE known

\* mutated update: the test `result is not None` is left out
replaced_also_by_None(known, name, action_result) ==
    IF name = "GET_ALL" /\ Names(known) # Names(action_result.products)
      THEN action_result.products
      ELSE known

\* `if chosen_action_name == 'GET_ALL' and result is not None:` ... `known_products = result`
replaced_when_names_differ(known, name, action_result) ==
    IF /\ name = "GET_ALL"
       /\ action_result.kind = "list"
       /\ Names(known) # Names(action_result.products)
      THEN action_result.products
      ELSE known

\* from `action_details = ACTION_CONFIG[chosen_action_name]` to the delay
Execute(runnable, total, normalized, forced, chosen, action_result) ==
    IF generated_args_is_None(chosen, current_known_products)
      THEN \* time.sleep(0.1); continue
           /\ last' = Iterated("no arguments", runnable, total, normalized, forced, chosen,
                               "none", ActionNone)
           /\ action_count' = count_after(action_count, chosen, TRUE)
           /\ UNCHANGED <<action_weight, known_products, current_known_products>>
      ELSE /\ SumOver(action_count, action_names) < MaxExecutions
           /\ action_count' = count_after(action_count, chosen, FALSE)
           /\ known_products' = replaced_when_names_differ(known_products, chosen, action_result)
           /\ \E argument \in generated_names(chosen, current_known_products) :
                 last' = Iterated(IF action_result.kind = "raised" /\ ~caught(action_result)
                                    THEN "terminated" ELSE "executed",
                                  runnable, total, normalized, forced, chosen, argument,
                                  action_result)
           /\ UNCHANGED <<action_weight, current_known_products>>

\* one iteration of `while True`
LoopIteration ==
    /\ last.path # "terminated"
    /\ LET runnable == runnable_actions(known_products)
           total == total_runnable_weight(action_weight, runnable)
           normalized == normalized_runnable_weights(action_weight, runnable)
       IN IF runnable = {}
            THEN IF action_weight["GET_ALL"] <= 0
                   THEN SleepAndContinue("stalled", runnable, 0)
                   ELSE \E action_result \in ActionResults("GET_ALL") :
                           Execute(runnable, 0, <<>>, TRUE, "GET_ALL", action_result)
            ELSE IF total <= 0
                   THEN SleepAndContinue("skipped", runnable, total)
                   ELSE \E chosen \in choices(normalized) :
                           \E action_result \in ActionResults(chosen) :
                               Execute(runnable, total, normalized, FALSE, chosen, action_result)

SchedFrame ==
    UNCHANGED <<retry_vars, valid_vars, cache_vars, alias_vars, conc_vars, user_vars,
                validate_vars, schema_vars, later_vars>>

RunSimulationIteration == LoopIteration /\ SchedFrame

\* the state run_simulation enters its loop in: the weights create_action_config
\* computed, the initial fetch's list in known_products and in the generators
InitSpecSched ==
    /\ action_weight \in WeightAssignments
    /\ action_count = [name \in action_names |-> 0]
    /\ known_products \in FetchResults
    /\ current_known_products = known_products
    /\ last = NoIteration
    /\ InitRetry /\ InitValid /\ InitCache /\ InitAlias /\ InitConc /\ InitUsers /\ InitValidate
    /\ InitSchema /\ InitLater

NextSched == RunSimulationIteration

SpecSched == InitSpecSched /\ [][NextSched]_vars

(***************************************************************************)
(* The start of the driver: config.parse_arguments, the first fetch and    *)
(* create_action_config, of tests/simulate.py and of                       *)
(* simulations/src/simulate.py.  Weights and the gap are in hundredths.    *)
(***************************************************************************)
Tests == "tests/simulate.py"
Simulations == "simulations/src/simulate.py"

\* tests/config.py: the keys of BASE_ACTION_CONFIG
tests_action_names ==
    { "GET_ALL", "GET_ONE_OK", "GET_ONE_404", "GET_ONE_INVALID", "UPDATE_STOCK",
      "CREATE_PRODUCT", "BAD_PATH", "STATUS_CHECK", "HEALTH_CHECK" }

ActionNames(prog) == IF prog = Tests THEN tests_action_names ELSE action_names

\* an argument: whether it starts with "--", whether it has an "=", and the
\* key and the value around the first "="
Arg(dashes, equals, key, value) ==
    [dashes |-> dashes, equals |-> equals, key |-> key, value |-> value]
ArgKeys == {"mode", "GAP", "get_all", "BAD_PATH", "bogus"}
ArgValues == {"fast", "Slow", "0.5", "1.5", "-1", "abc"}
ArgChoices ==
    { Arg(FALSE, TRUE, "GET_ALL", "0.5"), Arg(TRUE, FALSE, "fast", "") }
      \cup { Arg(TRUE, TRUE, key, value) : key \in ArgKeys, value \in ArgValues }
ArgLists == UNION { [1..n -> ArgChoices] : n \in 0..MaxArgs }

\* str.upper() and str.lower() on the strings above
upper(str) ==
    CASE str = "mode" -> "MODE"
      [] str = "get_all" -> "GET_ALL"
      [] str = "bogus" -> "BOGUS"
      [] OTHER -> str
lower(str) == IF str = "Slow" THEN "slow" ELSE str

\* float(value_str): whether it raises ValueError, and the number in hundredths
raises_ValueError(str) == str \notin {"0.5", "1.5", "-1"}
float(str) ==
    CASE str = "0.5" -> 50
      [] str = "1.5" -> 150
      [] str = "-1" -> -100

\* dict[key] = value
set_item(dict, key, value) ==
    [k \in DOMAIN dict \cup {key} |-> IF k = key THEN value ELSE dict[k]]

\* mutated test: a negative weight is taken as it is
is_negative_never(number) == FALSE

\* `if weight < 0:`, `if gap_duration < 0:`
is_negative(number) == number < 0

Error(st, message) == [st EXCEPT !.parsing_errors = Append(@, message)]

\* the body of `for arg in sys.argv[1:]` on the locals st
parse_argument(st, argument) ==
    IF ~argument.dashes \/ ~argument.equals
      THEN Error(st, "Invalid argument format")
      ELSE LET key_upper == upper(argument.key) IN
        IF key_upper = "MODE"
          THEN IF lower(argument.value) \in {"fast", "slow"}
                 THEN [st EXCEPT !.mode = lower(argument.value)]
                 ELSE Error(st, "Invalid value for --MODE")
        ELSE IF key_upper = "GAP"
          THEN IF raises_ValueError(argument.value)
                 THEN Error(st, "Invalid float value for --GAP")
                 ELSE LET gap == [st EXCEPT !.gap_duration = float(argument.value)]
                      IN IF is_negative(float(argument.value))
                           THEN Error(gap, "Value for --GAP cannot be negative")
                           ELSE gap
        ELSE IF key_upper \in tests_action_names
          THEN IF raises_ValueError(argument.value)
                 THEN Error(st, "Invalid float value")
                 ELSE IF is_negative(float(argument.value))
                        THEN Error(st, "Weight cannot be negative")
                        ELSE [st EXCEPT !.cli_overrides = set_item(@, key_upper, float(argument.value))]
        ELSE Error(st, "Unknown argument key")

\* the locals of parse_arguments after the arguments from the i-th on
RECURSIVE parse_from(_, _, _)
parse_from(st, args, i) ==
    IF i > Len(args) THEN st ELSE parse_from(parse_argument(st, args[i]), args, i + 1)

\* the locals of parse_arguments when the loop is over
parse_arguments(args) ==
    parse_from([mode |-> "fast", gap_duration |-> 100, cli_overrides |-> EmptyDict,
                parsing_errors |-> <<>>], args, 1)

\* simulations/src/simulate.py: BASE_ACTION_CONFIG[name]['weight']
base_weight(name) ==
    CASE name \in {"GET_ALL", "GET_BY_CATEGORY", "GET_BY_NAME", "UPDATE_STOCK", "BUY_PRODUCT"}
           -> 15
      [] name \in {"BAD_PATH", "HEALTH_CHECK"} -> 10
      [] name = "STATUS_CHECK" -> 5

\* sum(cli_overrides.get(name, 0) for name in action_config)
total_override_weight(prog, overrides) ==
    SumOver([name \in ActionNames(prog) |-> get(overrides, name, 0)], ActionNames(prog))

num_not_overridden(prog, overrides) ==
    Cardinality(ActionNames(prog)) - Cardinality(ActionNames(prog) \cap DOMAIN overrides)

\* max(0.0, 1.0 - total_override_weight)
remaining_weight_total(prog, overrides) ==
    IF 100 - total_override_weight(prog, overrides) > 0
      THEN 100 - total_override_weight(prog, overrides)
      ELSE 0

\* the weights below are numerators over 100 * weight_scale, so that
\* remaining_weight_total / num_not_overridden is one of them
weight_scale(prog, overrides) ==
    IF prog = Tests /\ num_not_overridden(prog, overrides) > 0
      THEN num_not_overridden(prog, overrides)
      ELSE 1

\* details['weight'] after the loop that applies the overrides: the override;
\* else, in tests/simulate.py, weight_per_non_overridden and, in
\* simulations/src/simulate.py, the weight of the base configuration
assigned_weight(prog, overrides, name) ==
    IF name \in DOMAIN overrides
      THEN overrides[name] * weight_scale(prog, overrides)
      ELSE IF prog = Tests
             THEN remaining_weight_total(prog, overrides)
             ELSE base_weight(name)

final_total_weight(prog, overrides) ==
    SumOver([name \in ActionNames(prog) |-> assigned_weight(prog, overrides, name)],
            ActionNames(prog))

\* `abs(final_total_weight - 1.0) > 1e-9`
normalizes(prog, overrides) ==
    final_total_weight(prog, overrides) # 100 * weight_scale(prog, overrides)

\* the division by final_total_weight raises ZeroDivisionError
divides_by_zero(prog, overrides) ==
    normalizes(prog, overrides) /\ final_total_weight(prog, overrides) = 0

\* the weights of the action_config create_action_config returns
create_action_config(prog, overrides) ==
    [name \in ActionNames(prog) |->
        [num |-> assigned_weight(prog, overrides, name),
         den |-> IF normalizes(prog, overrides)
                   THEN final_total_weight(prog, overrides)
                   ELSE 100 * weight_scale(prog, overrides)]]

\* `mode, gap_duration, cli_overrides = config.parse_arguments()`
ParseArguments ==
    /\ start_pc = "start"
    /\ LET st == parse_arguments(argv)
       IN /\ parsing_errors' = st.parsing_errors
          /\ IF st.parsing_errors # <<>>
               THEN \* exit(1)
                    /\ start_pc' = "exited"
                    /\ UNCHANGED <<mode, gap_duration, cli_overrides>>
               ELSE /\ start_pc' = "parsed"
                    /\ mode' = st.mode
                    /\ gap_duration' = st.gap_duration
                    /\ cli_overrides' = st.cli_overrides
    /\ UNCHANGED <<program, argv, weights, requests, fetch_result, known_products>>

\* what make_request and response.json() give the fetch: no 2xx response, a
\* body that is not JSON or not a product list, or a list of products (of
\* which FetchResults keeps those with a name)
NoResponse == [kind |-> "no response", products |-> <<>>]
Malformed == [kind |-> "malformed", products |-> <<>>]
FetchOutcomes == {NoResponse, Malformed} \cup { ActionReturned(l) : l \in FetchResults }

\* the `exit(1)` of fetch_product_ids_from_api
exits(outcome) == outcome.kind = "malformed"

\* known = client.fetch_product_ids_from_api(): one request; [] without a
\* response or without a valid product
fetch_product_ids_from_api(outcome, then) ==
    /\ requests' = requests + 1
    /\ fetch_result' = outcome
    /\ IF exits(outcome)
         THEN start_pc' = "exited" /\ UNCHANGED known_products
         ELSE start_pc' = then /\ known_products' = outcome.products

\* tests/simulate.py: `known_product_ids = client.fetch_product_ids_from_api()`
FetchProductIds ==
    /\ program = Tests
    /\ start_pc = "parsed"
    /\ \E outcome \in FetchOutcomes : fetch_product_ids_from_api(outcome, "fetched")
    /\ UNCHANGED <<program, argv, mode, gap_duration, cli_overrides, parsing_errors, weights>>

\* `ACTION_CONFIG = create_action_config(...)` at the level of the module
CreateActionConfig ==
    /\ start_pc = IF program = Tests THEN "fetched" ELSE "parsed"
    /\ IF divides_by_zero(program, cli_overrides)
         THEN start_pc' = "raised" /\ UNCHANGED weights
         ELSE start_pc' = "configured" /\ weights' = create_action_config(program, cli_overrides)
    /\ UNCHANGED <<program, argv, mode, gap_duration, cli_overrides, parsing_errors, requests,
                   fetch_result, known_products>>

\* run_simulation() up to `while True`: simulations/src/simulate.py fetches
\* and builds the same configuration again
RunSimulation ==
    /\ start_pc = "configured"
    /\ IF program = Tests
         THEN start_pc' = "loop" /\ UNCHANGED <<requests, fetch_result, known_products>>
         ELSE \E outcome \in FetchOutcomes : fetch_product_ids_from_api(outcome, "loop")
    /\ UNCHANGED <<program, argv, mode, gap_duration, cli_overrides, parsing_errors, weights>>

StartFrame ==
    UNCHANGED <<retry_vars, valid_vars, cache_vars, alias_vars, conc_vars, user_vars,
                validate_vars, schema_vars, task_vars, onstart_vars,
                action_weight, action_count, current_known_products, last>>

\* the overrides parse_arguments can hand to simulations/src/simulate.py:
\* up to two actions given a weight, or every action given the weight 0
OverrideChoices ==
    UNION { [names -> {0, 50, 150}] : names \in SUBSET {"GET_ALL", "BUY_PRODUCT"} }
        \cup { [name \in ActionNames(Simulations) |-> 0] }

\* tests/simulate.py before its first statement with any command line;
\* simulations/src/simulate.py when parse_arguments has returned
InitSpecStartup ==
    /\ program \in {Tests, Simulations}
    /\ IF program = Tests
         THEN argv \in ArgLists /\ start_pc = "start" /\ cli_overrides = EmptyDict
         ELSE argv = <<>> /\ start_pc = "parsed" /\ cli_overrides \in OverrideChoices
    /\ mode = "fast"
    /\ gap_duration = 100
    /\ parsing_errors = <<>>
    /\ weights = EmptyDict
    /\ requests = 0
    /\ fetch_result = [kind |-> "none", products |-> <<>>]
    /\ InitRetry /\ InitValid /\ InitCache /\ InitAlias /\ InitConc /\ InitUsers /\ InitValidate
    /\ InitSchema /\ InitSched /\ InitTasks /\ InitOnStart

NextStartup ==
    \/ ParseArguments /\ StartFrame
    \/ FetchProductIds /\ StartFrame
    \/ CreateActionConfig /\ StartFrame
    \/ RunSimulation /\ StartFrame

SpecStartup == InitSpecStartup /\ [][NextStartup]_vars

(***************************************************************************)
(* on_start of the users that share one cache (locustfile.py               *)
(* SimulationUser, users/base_user.py BaseUser), spawned together.  Each   *)
(* user is a greenlet: it runs until it blocks, which it does at the HTTP  *)
(* request and at the sleep of the initial load, so one step goes from one *)
(* of these points to the next.                                            *)
(***************************************************************************)
\* the classes whose users bind the module-level shared_data in on_start
SharingClasses == {"SimulationUser", "BaseUser"}

\* how many requests the initial load makes at most: `max_retries = 3` in
\* locustfile.py, a single request in users/base_user.py
load_attempts(class) == IF class = "SimulationUser" THEN 3 ELSE 1

\* `if not self.shared_data.get_products():`
sees_empty_cache(products) == products = <<>>

\* on_start up to the first request of _load_initial_products, or to its
\* end when the cache holds products
on_start_check(u) ==
    /\ o_pc[u] = "spawned"
    /\ IF sees_empty_cache(o_products)
         THEN /\ o_pc' = [o_pc EXCEPT ![u] = "loading"]
              /\ o_loaders' = o_loaders \cup {u}
         ELSE /\ o_pc' = [o_pc EXCEPT ![u] = "started"]
              /\ UNCHANGED o_loaders
    /\ UNCHANGED <<o_class, o_attempt, o_products>>

\* _load_initial_products from the answer to a request to the next request
\* or to the end of on_start; `loaded` is what _extract_products gets out
\* of the answer, the empty list for a failure
load_initial_products(u, loaded) ==
    /\ o_pc[u] = "loading"
    /\ IF loaded # <<>>
         THEN \* self.shared_data.update_products(products)
              /\ o_products' = loaded
              /\ o_pc' = [o_pc EXCEPT ![u] = "started"]
              /\ UNCHANGED o_attempt
         ELSE /\ UNCHANGED o_products
              /\ IF o_attempt[u] + 1 < load_attempts(o_class)
                   THEN \* time.sleep(retry_delay), then the next request
                        /\ o_attempt' = [o_attempt EXCEPT ![u] = @ + 1]
                        /\ UNCHANGED o_pc
                   ELSE /\ o_pc' = [o_pc EXCEPT ![u] = "started"]
                        /\ UNCHANGED o_attempt
    /\ UNCHANGED <<o_class, o_loaders>>

OnStartFrame ==
    UNCHANGED <<retry_vars, valid_vars, cache_vars, alias_vars, conc_vars, user_vars,
                validate_vars, schema_vars, sched_vars, task_vars, start_vars>>

OnStartCheck == \E u \in StartingUsers : on_start_check(u) /\ OnStartFrame
LoadInitialProducts ==
    \E u \in StartingUsers, loaded \in UserCatalogs \cup {<<>>} :
        load_initial_products(u, loaded) /\ OnStartFrame

\* the users are spawned and none has run yet; the cache is empty
InitSpecOnStart ==
    /\ o_class \in SharingClasses
    /\ o_pc = [u \in StartingUsers |-> "spawned"]
    /\ o_attempt = [u \in StartingUsers |-> 0]
    /\ o_products = <<>>
    /\ o_loaders = {}
    /\ InitRetry /\ InitValid /\ InitCache /\ InitAlias /\ InitConc /\ InitUsers /\ InitValidate
    /\ InitSchema /\ InitSched /\ InitTasks /\ InitStart

NextOnStart == OnStartCheck \/ LoadInitialProducts

SpecOnStart == InitSpecOnStart /\ [][NextOnStart]_vars

(***************************************************************************)
(* Vocabulary of the properties below.                                     *)
(***************************************************************************)
Calls == Len(history)
Returned == pc = "returned"
IsResponse(o) == o.kind = "response"
Is5xx(o) == IsResponse(o) /\ o.status_code \in 500..599
Is4xx(o) == IsResponse(o) /\ o.status_code \in 400..499
\* the validators accept the response, or none were supplied
Accepted(o) == Truthy(validators) => validate_response(o, validators.checks)
RECURSIVE Pow2(_)
Pow2(k) == IF k <= 0 THEN 1 ELSE 2 * Pow2(k - 1)
Range(l) == { l[i] : i \in DOMAIN l }

(***************************************************************************)
(* C1.  When request_func raises on every call, _retry_request returns     *)
(* None after exactly max_retries invocations; it sleeps between           *)
(* consecutive invocations for 1, 2, 4, ... and the call returns (the      *)
(* exception is not propagated).                                           *)
(***************************************************************************)
C1_AlwaysRaisingReturnsNone ==
    (Returned /\ \A i \in 1..Calls : history[i].outcome.kind = "raise") =>
        /\ result = None
        /\ Calls = max_retries
        /\ Len(sleeps) = (IF max_retries > 0 THEN max_retries - 1 ELSE 0)
        /\ \A k \in 1..Len(sleeps) : sleeps[k] = Pow2(k - 1)

C1_Witness ==
    /\ Returned
    /\ max_retries = 4
    /\ Calls = 4
    /\ \A i \in 1..Calls : history[i].outcome.kind = "raise"
    /\ sleeps = <<1, 2, 4>>
    /\ result = None

(***************************************************************************)
(* C2.  When request_func answers 5xx on attempts 1..N-1 and a successful  *)
(* response (not 5xx, accepted by the validators or none supplied) on      *)
(* attempt N <= max_retries, _retry_request returns that response and      *)
(* request_func has been invoked exactly N times.                          *)
(***************************************************************************)
C2_SuccessOnNthAttemptReturned ==
    \A n \in 1..Calls :
        ( /\ n <= max_retries
          /\ \A i \in 1..(n - 1) : Is5xx(history[i].outcome)
          /\ IsResponse(history[n].outcome)
          /\ ~Is5xx(history[n].outcome)
          /\ Accepted(history[n].outcome) )
        => (Returned /\ result = history[n].outcome /\ Calls = n)

C2_Witness ==
    /\ Returned
    /\ Calls = 3
    /\ Truthy(validators)
    /\ Is5xx(history[1].outcome) /\ Is5xx(history[2].outcome)
    /\ history[3].outcome.status_code = 200
    /\ result = history[3].outcome

(***************************************************************************)
(* C3.  If every one of the max_retries attempts yields a 5xx response,    *)
(* _retry_request returns None.                                            *)
(***************************************************************************)
C3_AllServerErrorsReturnNone ==
    ( /\ Returned
      /\ max_retries >= 1
      /\ Calls = max_retries
      /\ \A i \in 1..Calls : Is5xx(history[i].outcome) )
    => result = None

(***************************************************************************)
(* C4.  If validators are supplied and reject the (non-5xx) response of    *)
(* every one of the max_retries attempts, _retry_request returns None.     *)
(***************************************************************************)
C4_AllValidationFailuresReturnNone ==
    ( /\ Returned
      /\ Truthy(validators)
      /\ max_retries >= 1
      /\ Calls = max_retries
      /\ \A i \in 1..Calls :
            /\ IsResponse(history[i].outcome)
            /\ ~Is5xx(history[i].outcome)
            /\ ~validate_response(history[i].outcome, validators.checks) )
    => result = None

(***************************************************************************)
(* C5.  validate_response is never called on a 5xx response, on any        *)
(* attempt, the last one included.                                         *)
(***************************************************************************)
C5_ServerErrorNeverValidated ==
    \A i \in 1..Calls : Is5xx(history[i].outcome) => ~history[i].validated

(***************************************************************************)
(* C6 as stated.  A 4xx response is final: it is handed to the validators  *)
(* when some are supplied, it is returned, and request_func is not         *)
(* invoked again after it.                                                 *)
(***************************************************************************)
C6_ClientErrorNeverRetried ==
    \A i \in 1..Calls : Is4xx(history[i].outcome) =>
        /\ (Truthy(validators) => history[i].validated)
        /\ Calls = i
        /\ Returned
        /\ result = history[i].outcome

(***************************************************************************)
(* C6 amended.  A 4xx response never takes the 5xx retry path: it is       *)
(* handed to the validators whenever some are supplied; when they accept   *)
(* it or none are supplied it is returned at once, with no invocation of   *)
(* request_func after it; when they reject it and attempts remain, the     *)
(* executor sleeps and the request is retried instead of being returned.   *)
(***************************************************************************)
C6_ClientErrorRetriedOnlyOnRejection ==
    \A i \in 1..Calls : Is4xx(history[i].outcome) =>
        /\ (Truthy(validators) => history[i].validated)
        /\ Accepted(history[i].outcome) =>
              (Calls = i /\ Returned /\ result = history[i].outcome)
        /\ (~Accepted(history[i].outcome) /\ i < max_retries) =>
              (Len(sleeps) >= i /\ (Calls = i => pc = "loop"))

C6_Witness ==
    /\ Calls = 2
    /\ max_retries = 3
    /\ Is4xx(history[1].outcome)
    /\ history[1].validated
    /\ ~Accepted(history[1].outcome)
    /\ Is4xx(history[2].outcome)
    /\ Accepted(history[2].outcome)
    /\ Returned
    /\ result = history[2].outcome

C8_UpdateThenGetReturnsArgument ==
    (op = "get_products" /\ prev_op = "update_products") => ret_products = arg

C8_Witness ==
    /\ op = "get_products"
    /\ prev_op = "update_products"
    /\ Len(arg) = 2
    /\ arg[1] # arg[2]
    /\ ret_products = arg

(***************************************************************************)
(* C9.  Category accumulation is monotonic: no step removes a category     *)
(* from the set get_categories returns, and what get_categories returns    *)
(* contains the categories carried by every update_products argument so    *)
(* far (C1 and C2 of two successive updates in particular).                *)
(***************************************************************************)
C9_CategoriesAccumulate ==
    /\ [](ever_categories \subseteq _categories)
    /\ [](op = "get_categories" => ever_categories \subseteq Range(ret_categories))
    /\ [][_categories \subseteq _categories']_vars

C9_Witness ==
    /\ op = "get_categories"
    /\ prev_op = "update_products"
    /\ Carried(arg) = {"Books"}
    /\ Range(ret_categories) = {"Books", "Electronics"}

(***************************************************************************)
(* C10 as stated.  Every category of the category set is the category of   *)
(* at least one product of the currently stored product list.              *)
(***************************************************************************)
C10_CategoriesOfStoredProducts ==
    \A c \in _categories :
        \E i \in 1..Len(_products) :
            _products[i].has_category /\ _products[i].category = c

(***************************************************************************)
(* C10 amended.  Every category of the category set is the non-empty       *)
(* category of at least one product of a list passed to update_products,   *)
(* the last one or an earlier one; and every non-empty category of the     *)
(* list passed to the last update_products is in the set.                  *)
(***************************************************************************)
C10_CategoriesOfSomeUpdate ==
    /\ _categories \subseteq ever_categories
    /\ Carried(arg) \subseteq _categories
    /\ (op = "get_random_category" /\ ~ret_category.is_none) =>
           ret_category.value \in ever_categories

C10_Witness ==
    /\ op = "get_random_category"
    /\ ret_category = SomeCategory("Electronics")
    /\ Carried(_products) = {"Books"}
    /\ _categories = {"Books", "Electronics"}

(***************************************************************************)
(* C13.  get_random_product returns None exactly when the stored product   *)
(* list is empty, and otherwise returns an element of the stored list.     *)
(***************************************************************************)
C13_RandomProductNoneIffEmpty ==
    op = "get_random_product" =>
        /\ ret_product.is_none <=> _products = <<>>
        /\ ~ret_product.is_none =>
               \E i \in 1..Len(_products) : _products[i] = ret_product.value

C13_Witness ==
    /\ op = "get_random_product"
    /\ Len(_products) = 2
    /\ _products[1] # _products[2]
    /\ ret_product = SomeProduct(_products[2])

(***************************************************************************)
(* C14.  get_products and get_categories return defensive copies: a step   *)
(* in which the caller appends to, or removes from, a list one of them     *)
(* returned leaves the stored product list and the stored category set as  *)
(* they were, so later calls return what they would have returned.         *)
(***************************************************************************)
C14_ReturnedListsAreCopies ==
    [][step' \in {"R.append", "R.remove", "C.append", "C.remove"} =>
          /\ _products' = _products
          /\ _categories' = _categories]_vars

C14_Witness ==
    /\ step = "R.append"
    /\ Len(_products) = 1
    /\ Len(ret_products) = 2
    /\ ~ret_same

(***************************************************************************)
(* C15 as stated.  After update_products(L) has returned, the caller's     *)
(* appending to or removing from L does not change the stored list: the    *)
(* stored list, and what get_products returns, is the list as it was when  *)
(* the last update_products was given it.                                  *)
(***************************************************************************)
C15_StoredChangesOnlyThroughUpdate ==
    /\ _products = arg
    /\ (op = "get_products" /\ step = "call") => ret_products = arg

(***************************************************************************)
(* C11.  Under any interleaving of concurrent update_products,             *)
(* get_products and get_categories calls, a read sees the cache before or  *)
(* after each whole update: when a thread reads, no other thread is inside *)
(* an update and the categories of the stored products are all in the      *)
(* category set; a returned product list is the initial list or some       *)
(* update's argument, and a returned category list holds the categories of *)
(* a set of whole updates.  When every call has returned, the stored list  *)
(* is the argument of one of the updates and the category set holds the    *)
(* categories of them all.                                                 *)
(***************************************************************************)
Updaters == { t \in Threads : t_call[t] = "update_products" }
Reading(t) == t_pc[t] \in {"return self._products.copy()", "return list(self._categories)"}
InsideUpdate(t) == t_pc[t] \in {"self._products = products", "for product in products"}
CarriedBy(T) == UNION { Carried(t_products[t]) : t \in T }

C11_ReadsSeeWholeUpdates ==
    /\ \A t \in Threads :
         Reading(t) =>
           /\ \A u \in Threads \ {t} : ~InsideUpdate(u)
           /\ Carried(_products) \subseteq _categories
    /\ \A t \in Threads :
         (t_call[t] = "get_products" /\ t_pc[t] = "returned") =>
           \/ t_ret_products[t] = <<>>
           \/ \E u \in Updaters : t_ret_products[t] = t_products[u]
    /\ \A t \in Threads :
         (t_call[t] = "get_categories" /\ t_pc[t] = "returned") =>
           \E T \in SUBSET Updaters : Range(t_ret_categories[t]) = CarriedBy(T)
    /\ (\A t \in Threads : t_pc[t] = "returned") =>
           /\ Updaters # {} => \E u \in Updaters : _products = t_products[u]
           /\ _categories = CarriedBy(Updaters)

C11_Witness ==
    /\ \A t \in Threads : t_pc[t] = "returned"
    /\ t_call["user1"] = "update_products" /\ Carried(t_products["user1"]) = {"Books"}
    /\ t_call["user2"] = "update_products"
    /\ Carried(t_products["user2"]) = {"Books", "Electronics"}
    /\ _products = t_products["user2"]
    /\ t_call["user3"] = "get_categories"
    /\ Range(t_ret_categories["user3"]) = {"Books"}

(***************************************************************************)
(* C12 as stated.  All started users hold the same SharedData instance,    *)
(* and what a user reads from its cache after a catalog replacement by any *)
(* user is the replacing list.                                             *)
(***************************************************************************)
Started == { u \in Users : u_class[u] # "none" }

C12_OneCacheForAllUsers ==
    /\ \A u, v \in Started : u_shared_data[u] = u_shared_data[v]
    /\ \A v \in Started :
         (replaced.happened /\ u_seen[v].fresh) => u_seen[v].products = replaced.products

(***************************************************************************)
(* C16.  validate_response calls every check of the list, in order, also   *)
(* after one has failed; it returns True exactly when every check returned *)
(* True; a check that raises counts as a failure and no exception leaves   *)
(* validate_response.                                                      *)
(***************************************************************************)
ReturnedTrue(check, response) ==
    /\ check.fn # "raises"
    /\ response.kind = "response"
    /\ IF check.fn = "check_status_code"
         THEN response.status_code = check.expected_code.int
         ELSE StrIn(check.expected_type, response.content_type)

C16_EveryCheckRunsResultIsConjunction ==
    vr_done =>
        /\ vr_run.ran = [i \in 1..Len(vr_checks) |-> i]
        /\ vr_run.success <=> \A i \in 1..Len(vr_checks) : ReturnedTrue(vr_checks[i], vr_response)
        /\ ~vr_run.propagated

C16_Witness ==
    /\ vr_done
    /\ vr_response = Response(500, JSON_UTF8)
    /\ vr_checks = <<check_status_code(PyInt(200)), raising_check, check_content_type(JSON)>>
    /\ vr_run.ran = <<1, 2, 3>>
    /\ ~vr_run.success

(***************************************************************************)
(* C17.  check_products_list_schema accepts the body shapes bare list,     *)
(* {"data": list}, {"data": map} and bare map: for each of them an empty   *)
(* result is valid, and a non-empty one is valid exactly when its first    *)
(* element or entry is an object with the fields name, description and     *)
(* price, whatever the later ones are.                                     *)
(***************************************************************************)
IsProductListShape(body) == body.parsed /\ body.value.type \in {"list", "dict"}
IsProductObject(item) ==
    item.is_dict /\ {"name", "description", "price"} \subseteq item.fields

CatalogDependent == {"GET_BY_NAME", "UPDATE_STOCK", "BUY_PRODUCT"}
\* the actions left when the catalog-dependent ones are removed on an empty catalog
Remaining == IF last.catalog_empty THEN action_names \ CatalogDependent ELSE action_names
RemainingWeight == SumOver(action_weight, Remaining)
\* the sum of fractions that share a denominator is the sum of the numerators over it
SumsToOne(normalized) ==
    /\ DOMAIN normalized # {}
    /\ \A a \in DOMAIN normalized : normalized[a].den = RemainingWeight
    /\ RemainingWeight > 0
    /\ SumOver([a \in DOMAIN normalized |-> normalized[a].num], DOMAIN normalized)
         = RemainingWeight
IterationRan == last.path # "none"

(***************************************************************************)
(* C18 as stated.  For every non-negative weight assignment summing to 1,  *)
(* in every iteration the re-normalized weights of the actions left after  *)
(* the non-runnable ones are removed sum to 1, each being the action's     *)
(* configured weight over the sum of the runnable weights.                 *)
(***************************************************************************)
C18_RenormalizedWeightsSumToOne ==
    IterationRan =>
        /\ DOMAIN last.normalized = Remaining
        /\ SumsToOne(last.normalized)
        /\ \A a \in Remaining : last.normalized[a].num = action_weight[a]

(***************************************************************************)
(* C18 amended.  When the weights of the runnable actions have a positive  *)
(* sum, their re-normalized weights sum to 1, each is the configured       *)
(* weight over that sum, and the action drawn is a runnable one of         *)
(* positive weight.  When the sum is 0 no weights are computed and no      *)
(* action is drawn: the iteration sleeps and starts over.                  *)
(***************************************************************************)
C18_RenormalizedWhenRunnableWeightPositive ==
    IterationRan =>
        IF RemainingWeight > 0
          THEN /\ DOMAIN last.normalized = Remaining
               /\ SumsToOne(last.normalized)
               /\ \A a \in Remaining : last.normalized[a].num = action_weight[a]
               /\ last.chosen \in Remaining
               /\ action_weight[last.chosen] > 0
          ELSE /\ last.path = "skipped"
               /\ last.normalized = <<>>
               /\ last.chosen = "none"

C18_Witness ==
    /\ last.path = "executed"
    /\ last.catalog_empty
    /\ action_weight["GET_BY_NAME"] = 1
    /\ action_weight["GET_ALL"] = 1
    /\ last.chosen = "GET_ALL"
    /\ last.normalized["GET_ALL"] = [num |-> 1, den |-> 1]

(***************************************************************************)
(* C19.  In every iteration the chosen action is one of the runnable       *)
(* actions: GET_BY_NAME, UPDATE_STOCK and BUY_PRODUCT are neither chosen   *)
(* nor executed in an iteration that starts with an empty catalog.         *)
(***************************************************************************)
C19_ChosenActionIsRunnable ==
    last.chosen # "none" =>
        /\ last.chosen \in Remaining
        /\ last.chosen \in last.runnable
        /\ last.catalog_empty => last.chosen \notin CatalogDependent

C19_Witness ==
    /\ last.catalog_empty
    /\ action_weight["BUY_PRODUCT"] > 0
    /\ last.chosen = "HEALTH_CHECK"
    /\ last.path = "executed"

(***************************************************************************)
(* C20 as stated.  In an iteration that starts with an empty catalog and   *)
(* only catalog-dependent actions of positive weight, the runnable set is  *)
(* empty and GET_ALL is forced, or, GET_ALL having no weight, the loop     *)
(* sleeps as stalled; and when an executed GET_ALL returns named products, *)
(* the catalog holds products of those names and the catalog-dependent     *)
(* actions are runnable in the next iteration.                             *)
(***************************************************************************)
OnlyCatalogDependentConfigured ==
    \A a \in action_names : action_weight[a] > 0 => a \in CatalogDependent

C20_EmptyRunnableSetForcesGetAll ==
    /\ (IterationRan /\ last.catalog_empty /\ OnlyCatalogDependentConfigured) =>
          /\ last.runnable = {}
          /\ IF action_weight["GET_ALL"] > 0
               THEN last.forced /\ last.chosen = "GET_ALL"
               ELSE last.path = "stalled"
    /\ (last.path = "executed" /\ last.chosen = "GET_ALL" /\ last.result.kind = "list"
          /\ last.result.products # <<>>) =>
          /\ Names(known_products) = Names(last.result.products)
          /\ CatalogDependent \subseteq runnable_actions(known_products)

\* the generators were built over an empty list (the loop started with an empty catalog)
StartedEmpty == current_known_products = <<>>
Abstained == last.path = "no arguments"
Dispatched == last.path = "executed"

(***************************************************************************)
(* C21.  If the catalog was empty when the loop started and a later        *)
(* GET_ALL has filled it, a catalog-dependent action that is chosen is     *)
(* executed: its argument generator produces arguments, it does not        *)
(* abstain.                                                                *)
(***************************************************************************)
C21_DependentActionsDispatchedOnceFetched ==
    (StartedEmpty /\ ~last.catalog_empty /\ last.chosen \in CatalogDependent) => Dispatched

(***************************************************************************)
(* Vocabulary of the task properties.                                      *)
(***************************************************************************)
TaskCalled == task_last.outcome # "none"
TaskCount(u, task_name) == get(task_counts[u], task_name, 0)
\* the cap option of the task is not on the command line
NotConfigured(task_name) ==
    task_name \notin DOMAIN command_line \/ ~command_line[task_name].given

(***************************************************************************)
(* C22.  A task call whose argument generation abstains (no product is     *)
(* available) sends no request and leaves the task's counter as it was     *)
(* before the call.                                                        *)
(***************************************************************************)
C22_AbstainingLeavesCountersAlone ==
    task_last.outcome = "abstained"
        => TaskCount(task_last.user, task_last.task) = task_last.before

(***************************************************************************)
(* C23.  For every user and every task but health_check, in every state,   *)
(* the cap being the task's max_ option, or -1 without one: with a         *)
(* positive cap N the counter of the task is at most N; with cap 0 the     *)
(* task never runs (its counter stays 0, every call is filtered out); with *)
(* a negative cap no call is filtered out.                                 *)
(***************************************************************************)
C23_CapsAreHonoured ==
    \A u \in TaskUsers, task_name \in TasksOf(task_class) \ {"health_check"} :
        LET N == get(parsed_options, task_name, -1)
            called == task_last.user = u /\ task_last.task = task_name
        IN /\ N > 0 => TaskCount(u, task_name) <= N
           /\ N = 0 => /\ TaskCount(u, task_name) = 0
                       /\ called => task_last.outcome = "filtered"
           /\ N < 0 => (called => task_last.outcome # "filtered")

\* a task has run as often as its positive cap allows and its next call was filtered out,
\* while the other user has run it too
C23_Witness ==
    /\ task_last.outcome = "filtered"
    /\ task_last.task = "buy_product"
    /\ task_last.user = "user1"
    /\ parsed_options["buy_product"] = 2
    /\ TaskCount("user1", "buy_product") = 2
    /\ TaskCount("user2", "buy_product") = 1

(***************************************************************************)
(* C24 as stated.  A task whose cap is not configured is never filtered    *)
(* out by the cap check.                                                   *)
(***************************************************************************)
C24_UncappedTaskNeverFiltered ==
    (TaskCalled /\ NotConfigured(task_last.task)) => task_last.outcome # "filtered"

(***************************************************************************)
(* C24 amended.  A task whose cap option the parser does not know is never *)
(* filtered out, however often it has run; a task whose cap option the     *)
(* parser knows and the command line leaves out is filtered out at every   *)
(* call (the option's default is 0).                                       *)
(***************************************************************************)
C24_UnregisteredCapNeverFilters ==
    (TaskCalled /\ NotConfigured(task_last.task)) =>
        IF task_last.task \in RegisteredOptions(task_class)
          THEN task_last.outcome = "filtered"
          ELSE task_last.outcome # "filtered"

\* a task without a cap option passes the check after it has run twice
C24_Witness ==
    /\ task_class = "MasterStoreUser"
    /\ task_last.task = "master_buy_product"
    /\ task_last.outcome # "filtered"
    /\ task_last.before = 2

C26_CatalogNamesAreTheReturnedNames ==
    (Dispatched /\ last.chosen = "GET_ALL" /\ last.result.kind = "list")
        => Names(known_products) = Names(last.result.products)

\* a GET_ALL returned two products while one was known and the catalog was replaced
C26_Witness ==
    /\ Dispatched
    /\ last.chosen = "GET_ALL"
    /\ last.result.kind = "list"
    /\ ~last.catalog_empty
    /\ Len(known_products) = 2
    /\ action_count["GET_ALL"] = 1

(***************************************************************************)
(* Vocabulary of the start-up properties.                                  *)
(***************************************************************************)
WeightsComputed == DOMAIN weights # {}
OverrideSum == SumOver(cli_overrides, DOMAIN cli_overrides)
NotOverridden == ActionNames(program) \ DOMAIN cli_overrides
\* the fraction w is num / den
FractionIs(w, num, den) == w.num * den = num * w.den
\* the arguments the claim calls in error: not of the form --KEY=value, a key
\* that is neither MODE, GAP nor an action, a mode other than fast or slow, a
\* gap or a weight that is no number or is negative
WellFormed(argument) ==
    /\ argument.dashes /\ argument.equals
    /\ \/ argument.key = "mode" /\ argument.value \in {"fast", "Slow"}
       \/ argument.key \in {"GAP", "get_all", "BAD_PATH"} /\ argument.value \in {"0.5", "1.5"}
InError == { i \in DOMAIN argv : ~WellFormed(argv[i]) }
\* the arguments that name the action, in either case
Naming(name) ==
    { i \in DOMAIN argv : argv[i].key = (IF name = "GET_ALL" THEN "get_all" ELSE name) }
\* parse_arguments has returned
ArgumentsReturned ==
    program = Tests /\ (start_pc \in {"parsed", "fetched", "configured", "loop"} \/ requests > 0)

(***************************************************************************)
(* C27.  With overrides (that sum to at most 1), in the weights            *)
(* create_action_config computes every overridden action has its override *)
(* weight and every other action has max(0, 1 - sum(overrides)) divided by *)
(* the number of actions that are not overridden.                          *)
(***************************************************************************)
C27_OverridesKeptRemainderShared ==
    (WeightsComputed /\ DOMAIN cli_overrides # {} /\ OverrideSum <= 100) =>
        \A name \in ActionNames(program) :
            IF name \in DOMAIN cli_overrides
              THEN FractionIs(weights[name], cli_overrides[name], 100)
              ELSE FractionIs(weights[name], 100 - OverrideSum,
                              100 * Cardinality(NotOverridden))

(***************************************************************************)
(* C28.  With weight overrides whose sum exceeds 1 the program never       *)
(* enters its steady-state loop.                                           *)
(***************************************************************************)
C28_OverridesAboveOneNeverStart ==
    OverrideSum > 100 => start_pc # "loop"

(***************************************************************************)
(* C29.  parse_arguments collects one error for every argument in error    *)
(* (unknown key, negative or non-numeric weight or gap, bad mode, not of   *)
(* the form --KEY=value); with any such argument the process has exited    *)
(* with no weight computed and no request sent; it returns only when no    *)
(* argument is in error, and then the overrides are those of the command   *)
(* line.                                                                   *)
(***************************************************************************)
C29_ArgumentErrorsAreFatal ==
    (program = Tests /\ start_pc # "start") =>
        /\ Len(parsing_errors) = Cardinality(InError)
        /\ InError # {} => start_pc = "exited" /\ ~WeightsComputed /\ requests = 0
        /\ ArgumentsReturned =>
              /\ InError = {}
              /\ DOMAIN cli_overrides = { name \in {"GET_ALL", "BAD_PATH"} : Naming(name) # {} }
              /\ \A name \in DOMAIN cli_overrides :
                     \E i \in Naming(name) :
                        /\ \A j \in Naming(name) : j <= i
                        /\ cli_overrides[name] = IF argv[i].value = "0.5" THEN 50 ELSE 150

\* two arguments in error, a negative weight and an unknown key, both collected
C29_Witness ==
    /\ program = Tests
    /\ start_pc = "exited"
    /\ Len(argv) = 2
    /\ argv[1] = Arg(TRUE, TRUE, "get_all", "-1")
    /\ argv[2] = Arg(TRUE, TRUE, "bogus", "0.5")
    /\ Len(parsing_errors) = 2
    /\ requests = 0

(***************************************************************************)
(* C30.  The start-up catalog fetch makes at most 3 attempts; a non-empty  *)
(* product list it gets is stored as the catalog; when it gets none (no    *)
(* response, an unusable body, no product) the catalog is left empty and   *)
(* the driver goes on to its steady state: it does not abort.              *)
(***************************************************************************)
C30_StartupFetchBoundedAndNotFatal ==
    fetch_result.kind # "none" =>
        /\ requests <= 3
        /\ IF fetch_result.kind = "list" /\ fetch_result.products # <<>>
             THEN known_products = fetch_result.products
             ELSE known_products = <<>> /\ start_pc # "exited"

(***************************************************************************)
(* C31.  A catalog response whose body is malformed (not JSON, or not of   *)
(* the expected shape) does not terminate the program: the step that       *)
(* receives it leaves the catalog as it was and the caller goes on.        *)
(***************************************************************************)
C31_MalformedBodyNeverTerminates ==
    [][(requests' = requests + 1 /\ fetch_result'.kind = "malformed") =>
          (start_pc' \notin {"exited", "raised"} /\ known_products' = known_products)]_vars

(***************************************************************************)
(* C32.  An exception raised while the chosen action executes does not     *)
(* end the run: it is caught inside the driver loop, the iteration counts  *)
(* as executed, the catalog is as before and the loop can iterate again.   *)
(***************************************************************************)
C32_RaisingActionDoesNotEndTheLoop ==
    last.result.kind = "raised" =>
        /\ last.path = "executed"
        /\ (known_products = <<>>) = last.catalog_empty
        /\ SumOver(action_count, action_names) < MaxExecutions => ENABLED RunSimulationIteration

C32_Witness ==
    /\ last.result.kind = "raised"
    /\ last.chosen = "BUY_PRODUCT"
    /\ SumOver(action_count, action_names) = 1

(***************************************************************************)
(* C33.  The arguments generated for a catalog-dependent action name a     *)
(* product of the driver's current catalog, also after GET_ALL has         *)
(* replaced the catalog.                                                   *)
(***************************************************************************)
C33_ArgumentsNameCurrentProducts ==
    (Dispatched /\ last.chosen \in actions_requiring_products)
        => last.argument \in Names(known_products)

(***************************************************************************)
(* C34.  For every override set parse_arguments accepts,                   *)
(* create_action_config completes, and the final weights it yields are     *)
(* non-negative and sum to 1.                                              *)
(***************************************************************************)
C34_AcceptedOverridesGiveWeightsSummingToOne ==
    /\ start_pc # "raised"
    /\ WeightsComputed =>
          /\ \A name \in DOMAIN weights : weights[name].num >= 0 /\ weights[name].den > 0
          /\ \A name \in DOMAIN weights :
                SumOver([n \in DOMAIN weights |-> weights[n].num], DOMAIN weights)
                    = weights[name].den

(***************************************************************************)
(* C35.  A catalog fetch without usable products leaves the cached catalog *)
(* as it was.  As claimed: a GET_ALL of the driver that yields no product  *)
(* (it raises, returns None or returns an empty list) does not modify      *)
(* known_products, and a cache of the locust users that is non-empty does  *)
(* not become empty.                                                       *)
(***************************************************************************)
GetAllRan == last'.path = "executed" /\ last'.chosen = "GET_ALL"

CacheStaysNonEmpty ==
    \A u \in TaskUsers : task_products[u] # <<>> => task_products'[u] # <<>>

C36_SleepsDoubleBetweenInvocations ==
    /\ \A k \in 1..Len(sleeps) : sleeps[k] = Pow2(k - 1)
    /\ pc = "loop" => Len(sleeps) = Calls /\ Calls < max_retries
    /\ Returned => Len(sleeps) = (IF Calls > 0 THEN Calls - 1 ELSE 0)

C36_Witness ==
    /\ Returned
    /\ Calls = 4
    /\ sleeps = <<1, 2, 4>>
    /\ history[1].outcome.kind = "raise"
    /\ Is5xx(history[2].outcome)
    /\ history[3].validated /\ ~history[3].valid /\ ~Is5xx(history[3].outcome)

(***************************************************************************)
(* C37.  For every behaviour of the request function and the validators    *)
(* and every max_retries >= 0, _retry_request terminates, without raising, *)
(* after at most max_retries invocations of the request function: at least *)
(* one when max_retries >= 1, and none, returning None, when               *)
(* max_retries = 0.                                                        *)
(***************************************************************************)
InvocationsBounded ==
    /\ pc \in {"idle", "loop", "returned"}
    /\ Calls <= max_retries
    /\ Returned => IF max_retries = 0 THEN Calls = 0 /\ result = None ELSE Calls >= 1

C37_RetryTerminatesWithinMaxRetries ==
    /\ []InvocationsBounded
    /\ (pc # "idle") ~> Returned

C37_WitnessNoInvocation ==
    /\ Returned
    /\ max_retries = 0
    /\ Calls = 0
    /\ result = None

C37_Witness ==
    /\ Returned
    /\ max_retries = 4
    /\ Calls = 4
    /\ history[1].outcome.kind = "raise"
    /\ Is5xx(history[2].outcome)
    /\ history[3].validated /\ ~history[3].valid

(***************************************************************************)
(* C38.  When several users start together against an empty shared cache,  *)
(* at most one of them performs the initial catalog load: no user checks   *)
(* the cache between another user's check and the end of that user's load. *)
(***************************************************************************)
C38_AtMostOneInitialLoad ==
    /\ Cardinality(o_loaders) <= 1
    /\ Cardinality({ u \in StartingUsers : o_pc[u] = "loading" }) <= 1

====
